---- MODULE Spec2Model ----
(***************************************************************************)
(* ci-gate (src/index.js): the webhook handlers of the gate as a state     *)
(* machine.  Every delivery of a webhook is one handler; a handler moves   *)
(* from one remote call (an await of the source) to the next, and the      *)
(* handlers of different deliveries interleave at these calls only.        *)
(* Strings the code takes apart (URLs, repository names, commit SHAs) are  *)
(* sequences of one-character strings; template literals are sequences of  *)
(* their pieces.                                                           *)
(***************************************************************************)
EXTENDS Integers, Sequences, FiniteSets, TLC

VARIABLES
  prs,        \* github: pull request key -> [state, mergeable, merged, head, author]
  labels,     \* github: pull request key -> set of label names
  statuses,   \* github: <<sha, context>> -> latest commit status
  ev,         \* delivery -> the webhook event it carries
  pc,         \* delivery -> the await its handler is suspended at
  loc,        \* delivery -> the handler's local variables
  bg,         \* delivery -> the await of its un-awaited handleCommitsPushedToPullRequest
  outcome,    \* delivery -> how onGithub ended
  calls,      \* delivery -> the remote calls the handler issued, with their results
  autoMergePullRequestsBusy,
  autoMergePullRequestsPending,
  sweeps,     \* history: the sweeps started so far, [by, name]
  ciLabelEver,\* history: pull request key -> the CI label was applied at some time
  faults,     \* delivery -> number of its remote calls that were made to fail
  labelings   \* number of labels project members applied so far

vars == <<prs, labels, statuses, ev, pc, loc, bg, outcome, calls,
          autoMergePullRequestsBusy, autoMergePullRequestsPending,
          sweeps, ciLabelEver, faults, labelings>>

github == <<prs, labels, statuses>>
flags == <<autoMergePullRequestsBusy, autoMergePullRequestsPending, sweeps>>

----------------------------------------------------------------------------
(* Bounds of the model *)

MaxDeliveries == 2
MaxStatusEvents == 4
MaxRepoEvents == 3
MaxPushes == 1
MaxEchoes == 2
BurstSize == 5
MaxRedeliveries == 2
MaxFaults == 1
MaxLabelings == 1

Max(a, b) == IF a >= b THEN a ELSE b
Deliveries ==
  1..Max(Max(Max(MaxStatusEvents, MaxRepoEvents), BurstSize + 1),
         Max(MaxDeliveries, MaxRedeliveries + 1))

----------------------------------------------------------------------------
(* Constants of the program *)

STATUS_CONTEXT == "ci-gate"
CI_LABEL == "CI"
NOCI_LABEL == "noCI"
AUTOMERGE_LABEL == "automerge"

\* envconst.BUILDKITE_ORG_SLUG (required, no default): the organization "o"
BUILDKITE_ORG_SLUG == <<"o">>
\* envconst.PUBLIC_URL_ROOT, the default
PUBLIC_URL_ROOT ==
  <<"h","t","t","p",":","/","/","l","o","c","a","l","h","o","s","t",":","5","0","0","0">>
\* envconst.CI_USER_WHITELIST.split(','): the entries
CI_USER_WHITELIST == <<"bob">>
\* envconst.PUBLIC_PIPELINE_REPOS.split(',') as a Set
PUBLIC_PIPELINE_REPOS == {<<"o","r","g","/","p","u","b">>}

----------------------------------------------------------------------------
(* The world the handlers talk to *)

OrgRepo == <<"o","r","g","/","r","e","p","o">>
PubRepo == <<"o","r","g","/","p","u","b">>
ShaA == <<"a","b","c","d","e","f","0","1","2","3">>
ShaB == <<"1","2","3","4","5","6","7","8","9","a">>
Shas == {ShaA, ShaB}
BuildkiteContext == "buildkite/repo"
Contexts == {STATUS_CONTEXT, BuildkiteContext}

\* github: the users with write access (repo.collaborators(user) answers true)
Collaborators == {"alice"}
\* buildkite: the pipelines of the organization
Pipelines == {<<"r","e","p","o">>}

PR(repoName, prNumber) == <<repoName, prNumber>>
PrA == PR(OrgRepo, 7)
PrB == PR(OrgRepo, 8)

NoStatus == [state |-> "none", description |-> <<>>, target_url |-> <<>>]
NoUrl == <<>>

----------------------------------------------------------------------------
(* Strings *)

LowerLetters ==
  {"a","b","c","d","e","f","g","h","i","j","k","l","m",
   "n","o","p","q","r","s","t","u","v","w","x","y","z"}
Digits == {"0","1","2","3","4","5","6","7","8","9"}

\* String.prototype.toLowerCase on the label names that occur
toLowerCase(s) ==
  CASE s = "CI" -> "ci"
    [] s = "Ci" -> "ci"
    [] s = "noCI" -> "noci"
    [] s = "NOCI" -> "noci"
    [] s = "NoCi" -> "noci"
    [] s = "Automerge" -> "automerge"
    [] s = "AUTOMERGE" -> "automerge"
    [] OTHER -> s

startsWith(s, p) == Len(s) >= Len(p) /\ SubSeq(s, 1, Len(p)) = p
slice(s, n) == SubSeq(s, n + 1, Len(s))
substring(s, a, b) == SubSeq(s, a + 1, IF b <= Len(s) THEN b ELSE Len(s))
AllIn(s, S) == \A i \in 1..Len(s) : s[i] \in S

\* index of the last "/" of s, 0 if none
LastSlash(s) ==
  LET idx == {i \in 1..Len(s) : s[i] = "/"}
  IN IF idx = {} THEN 0 ELSE CHOOSE i \in idx : \A j \in idx : j <= i

\* path.basename(repoName)
basename(s) == slice(s, LastSlash(s))
\* .replace(/\./g, '-')
replaceDots(s) == [i \in 1..Len(s) |-> IF s[i] = "." THEN "-" ELSE s[i]]

----------------------------------------------------------------------------
(* isBuildkitePublicLogUrl *)

orgUrlPrefix ==
  <<"h","t","t","p","s",":","/","/","b","u","i","l","d","k","i","t","e",".","c","o","m","/">>
    \o BUILDKITE_ORG_SLUG \o <<"/">>
BuildsPath == <<"/","b","u","i","l","d","s","/">>
LatestPath == <<"l","a","t","e","s","t","/">>
PublicLogPath ==
  <<"/","b","u","i","l","d","k","i","t","e","_","p","u","b","l","i","c","_","l","o","g","?">>

\* the character class [1-9[0-9] of the source's pattern
BuildNumberClass == {"1","2","3","4","5","6","7","8","9"} \cup {"["} \cup Digits

\* index of the first "/" of s, 0 if none
FirstSlash(s) ==
  LET idx == {i \in 1..Len(s) : s[i] = "/"}
  IN IF idx = {} THEN 0 ELSE CHOOSE i \in idx : \A j \in idx : i <= j

\* buildInfo.match(/^([a-z-]+)\/builds\/([1-9[0-9]+|latest\/[a-z]+)$/)
reMatch(buildInfo) ==
  LET k == FirstSlash(buildInfo)
      pipeline == SubSeq(buildInfo, 1, k - 1)
      rest == slice(buildInfo, k - 1)
      build == slice(rest, Len(BuildsPath))
  IN /\ k > 1
     /\ AllIn(pipeline, LowerLetters \cup {"-"})
     /\ startsWith(rest, BuildsPath)
     /\ \/ Len(build) >= 1 /\ AllIn(build, BuildNumberClass)
        \/ /\ startsWith(build, LatestPath)
           /\ Len(build) > Len(LatestPath)
           /\ AllIn(slice(build, Len(LatestPath)), LowerLetters)

\* an isBuildkitePublicLogUrl that looks for the pattern anywhere in the URL
isBuildkitePublicLogUrlUnanchored(url) ==
  /\ url # NoUrl
  /\ \E k \in 0..Len(url) :
       /\ startsWith(slice(url, k), orgUrlPrefix)
       /\ reMatch(slice(url, k + Len(orgUrlPrefix)))

\* truthiness of isBuildkitePublicLogUrl(url); NoUrl is a target_url that is no string
isBuildkitePublicLogUrl(url) ==
  /\ url # NoUrl
  /\ startsWith(url, orgUrlPrefix)
  /\ reMatch(slice(url, Len(orgUrlPrefix)))

----------------------------------------------------------------------------
(* Webhook payloads: one record shape for every kind; a field a kind does  *)
(* not carry is blank.                                                     *)

BlankEvent ==
  [kind |-> "none", action |-> "", repo |-> <<>>, name |-> <<>>, number |-> 0,
   sender |-> "", sha |-> <<>>, merged |-> FALSE, headRepo |-> <<>>,
   context |-> "", state |-> "", description |-> <<>>, target_url |-> NoUrl]

PullRequestEvent(action, repo, number, sender, sha, merged) ==
  [BlankEvent EXCEPT !.kind = "pull_request", !.action = action, !.repo = repo,
                     !.number = number, !.sender = sender, !.sha = sha,
                     !.merged = merged]

StatusEvent(repo, sha, context, state, target_url) ==
  [BlankEvent EXCEPT !.kind = "status", !.repo = repo, !.name = repo, !.sha = sha,
                     !.context = context, !.state = state,
                     !.description = <<"Build">>, !.target_url = target_url]

ReviewEvent(repo, headRepo, number) ==
  [BlankEvent EXCEPT !.kind = "pull_request_review", !.action = "submitted",
                     !.repo = repo, !.headRepo = headRepo, !.number = number]

PingEvent == [BlankEvent EXCEPT !.kind = "ping"]

----------------------------------------------------------------------------
(* github and buildkite, as the calls of the source see them *)

\* prHasLabel comparing the names as they are spelled
prHasLabelExact(labelsReply, labelName) == labelName \in labelsReply

\* prHasLabel, on the labels issue.labels() returned
prHasLabel(labelsReply, labelName) ==
  \E l \in labelsReply : toLowerCase(l) = toLowerCase(labelName)

\* github: the labels of the issue that issue.removeLabel(labelName) names
\* (label names are case-insensitive on github)
LabelsNamed(pr, labelName) ==
  IF pr \in DOMAIN labels
  THEN {l \in labels[pr] : toLowerCase(l) = toLowerCase(labelName)}
  ELSE {}

\* a github that answers a removal of a label the issue does not carry with success
removeLabelLenient(pr, labelName, ok) == ok

\* github: issue.removeLabel answers 404 "Label does not exist" when the issue
\* does not carry the label
removeLabelSucceeds(pr, labelName, ok) == ok /\ LabelsNamed(pr, labelName) # {}

\* a prRemoveLabel that reports a removal whatever removeLabelAsync did
prRemoveLabelAlways(pr, labelName, ok) == TRUE

\* prRemoveLabel's return value: true unless removeLabelAsync threw
prRemoveLabel(pr, labelName, ok) == removeLabelSucceeds(pr, labelName, ok)

LabelsAfterRemove(pr, labelName, ok) ==
  IF removeLabelSucceeds(pr, labelName, ok)
  THEN [labels EXCEPT ![pr] = @ \ LabelsNamed(pr, labelName)]
  ELSE labels

\* github: the combined status of a commit over the latest status of each context
combinedStatus(sha) ==
  LET present == {c \in Contexts : statuses[<<sha, c>>].state # "none"}
      states == {statuses[<<sha, c>>].state : c \in present}
  IN [state |-> IF states \cap {"failure", "error"} # {} THEN "failure"
                ELSE IF present = {} \/ "pending" \in states THEN "pending"
                ELSE "success",
      count |-> Cardinality(present)]

\* github: repo.status(sha, ...) replaces the latest status of (sha, context)
StatusesAfterPost(sha, context, st, ok) ==
  IF ok /\ <<sha, context>> \in DOMAIN statuses
  THEN [statuses EXCEPT ![<<sha, context>>] = st]
  ELSE statuses

\* github: pr.merge({sha}) merges an open, mergeable pull request whose head is sha
mergeSucceeds(pr, sha, ok) ==
  /\ ok
  /\ pr \in DOMAIN prs
  /\ prs[pr].state = "open"
  /\ prs[pr].mergeable = "true"
  /\ prs[pr].head = sha

PrsAfterMerge(pr, sha, ok) ==
  IF mergeSucceeds(pr, sha, ok)
  THEN [prs EXCEPT ![pr].state = "closed", ![pr].merged = TRUE]
  ELSE prs

\* github: the numbers of the pull requests repo.prs lists, in listing order,
\* filtered to state open (lines 274-277)
RECURSIVE ListOpen(_, _)
ListOpen(repoName, numbers) ==
  IF numbers = <<>> THEN <<>>
  ELSE LET n == Head(numbers)
           rest == ListOpen(repoName, Tail(numbers))
       IN IF PR(repoName, n) \in DOMAIN prs /\ prs[PR(repoName, n)].state = "open"
          THEN <<n>> \o rest ELSE rest
PrNumbers == <<7, 8>>
openPrs(repoName) == ListOpen(repoName, PrNumbers)

\* a userInCiWhitelist that answers false when the lookup throws
userInCiWhitelistStrict(user, collaborator, ok) ==
  ok /\ (collaborator \/ \E i \in 1..Len(CI_USER_WHITELIST) : CI_USER_WHITELIST[i] = user)

\* a userInCiWhitelist that answers true when the lookup throws
userInCiWhitelistOpen(user, collaborator, ok) ==
  \/ ~ok
  \/ collaborator
  \/ \E i \in 1..Len(CI_USER_WHITELIST) : CI_USER_WHITELIST[i] = user

\* userInCiWhitelist, given the answer of repo.collaborators(user)
\* (collaborator: the answer; ok: the call did not throw)
userInCiWhitelist(user, collaborator, ok) ==
  \/ ok /\ collaborator
  \/ \E i \in 1..Len(CI_USER_WHITELIST) : CI_USER_WHITELIST[i] = user

\* the pipeline slug of triggerPullRequestCI
pipelineName(repoName) == replaceDots(basename(repoName))

----------------------------------------------------------------------------
(* A handler's local variables *)

LocInit ==
  [repoName |-> <<>>, prNumber |-> 0,   \* the arguments of the running callee
   name |-> <<>>,                       \* onGithubStatusUpdate's name (payload.name)
   trRet |-> "done",                    \* where triggerPullRequestCI returns to
   amRet |-> "done",                    \* where autoMergePullRequest returns to
   state |-> "", mergeable |-> "", sha |-> <<>>,  \* {state, mergeable, head} of info[0]
   description |-> <<>>,                \* triggerPullRequestCI's description
   reason |-> "",                       \* which removal of the automerge label runs
   openPrs |-> <<>>,                    \* the rest of autoMergePullRequests' listing
   pass |-> 0,                          \* history: number of the reconciliation pass
   recvInSweep |-> FALSE, recvSweeps |-> 0, \* history: a sweep ran, sweeps so far, at reception
   flagged |-> FALSE,                     \* history: line 390 was reached
   flagBusy |-> FALSE, flagSweeps |-> 0]  \* history: busy flag and sweeps at line 390

AmPcs == {"am_info", "am_hasLabel", "am_remove", "am_comment", "am_combined", "am_merge"}

\* the handler of delivery d is inside autoMergePullRequests (line 401)
InSweep(d) == pc[d] = "sw_list" \/ (pc[d] \in AmPcs /\ loc[d].amRet = "sweep")

\* a remote call answers (TRUE) or fails (FALSE)
RECURSIVE Sum(_, _)
Sum(f, S) == IF S = {} THEN 0 ELSE LET x == CHOOSE y \in S : TRUE
                                   IN f[x] + Sum(f, S \ {x})
Outcomes == IF Sum(faults, Deliveries) < MaxFaults THEN {TRUE, FALSE} ELSE {TRUE}
Fault(d, ok) == faults' = [faults EXCEPT ![d] = IF ok THEN @ ELSE @ + 1]

Call(d, op, pr, sha, arg, res, ok) ==
  [op |-> op, pr |-> pr, sha |-> sha, arg |-> arg, res |-> res, ok |-> ok,
   task |-> "main", pass |-> loc[d].pass]
\* a call of the un-awaited handleCommitsPushedToPullRequest
BgCall(op, pr, arg, res, ok) ==
  [op |-> op, pr |-> pr, sha |-> <<>>, arg |-> arg, res |-> res, ok |-> ok,
   task |-> "bg", pass |-> 0]
Issue(d, c) == calls' = [calls EXCEPT ![d] = Append(@, c)]

----------------------------------------------------------------------------
(* Control: where a handler goes next.  These set pc, loc, outcome and the *)
(* two flags; the actions set the rest.                                    *)

Goto(d, l, label) ==
  /\ pc' = [pc EXCEPT ![d] = label]
  /\ loc' = [loc EXCEPT ![d] = l]
  /\ UNCHANGED <<outcome, flags>>

\* onGithub returns: "ok", or "caught" by its catch (lines 482-484)
Finish(d, l, how) ==
  /\ pc' = [pc EXCEPT ![d] = "done"]
  /\ loc' = [loc EXCEPT ![d] = l]
  /\ outcome' = [outcome EXCEPT ![d] = how]
  /\ UNCHANGED flags

\* a sweep that starts without clearing the pending flag
StartSweepKeepPending(d, l) ==
  /\ pc' = [pc EXCEPT ![d] = "sw_list"]
  /\ loc' = [loc EXCEPT ![d] = [l EXCEPT !.openPrs = <<>>, !.repoName = l.name]]
  /\ autoMergePullRequestsBusy' = TRUE
  /\ sweeps' = Append(sweeps, [by |-> d, name |-> l.name])
  /\ UNCHANGED <<autoMergePullRequestsPending, outcome>>

\* autoMergePullRequests(name) is called (line 401)
StartSweep(d, l) ==
  /\ pc' = [pc EXCEPT ![d] = "sw_list"]
  /\ loc' = [loc EXCEPT ![d] = [l EXCEPT !.openPrs = <<>>, !.repoName = l.name]]
  /\ autoMergePullRequestsPending' = FALSE
  /\ autoMergePullRequestsBusy' = TRUE
  /\ sweeps' = Append(sweeps, [by |-> d, name |-> l.name])
  /\ UNCHANGED outcome

\* a handler that runs its sweep whether or not one is running
CoalesceAlways(d, l0) ==
  StartSweep(d, [l0 EXCEPT !.flagged = TRUE, !.flagBusy = autoMergePullRequestsBusy,
                           !.flagSweeps = Len(sweeps)])

\* lines 390-397: request a sweep; run it unless one is running
Coalesce(d, l0) ==
  LET l == [l0 EXCEPT !.flagged = TRUE, !.flagBusy = autoMergePullRequestsBusy,
                      !.flagSweeps = Len(sweeps)]
  IN IF autoMergePullRequestsBusy
     THEN /\ autoMergePullRequestsPending' = TRUE
          /\ pc' = [pc EXCEPT ![d] = "done"]
          /\ loc' = [loc EXCEPT ![d] = l]
          /\ outcome' = [outcome EXCEPT ![d] = "ok"]
          /\ UNCHANGED <<autoMergePullRequestsBusy, sweeps>>
     ELSE StartSweep(d, l)

\* a handler that runs one sweep and does not look at the pending flag again
SweepLoopOnce(d, l) ==
  /\ autoMergePullRequestsBusy' = FALSE
  /\ pc' = [pc EXCEPT ![d] = "done"]
  /\ loc' = [loc EXCEPT ![d] = l]
  /\ outcome' = [outcome EXCEPT ![d] = "ok"]
  /\ UNCHANGED <<autoMergePullRequestsPending, sweeps>>

\* lines 396-406: a sweep returned or threw into the loop's catch
SweepLoop(d, l) ==
  IF autoMergePullRequestsPending
  THEN StartSweep(d, l)
  ELSE /\ autoMergePullRequestsBusy' = FALSE
       /\ pc' = [pc EXCEPT ![d] = "done"]
       /\ loc' = [loc EXCEPT ![d] = l]
       /\ outcome' = [outcome EXCEPT ![d] = "ok"]
       /\ UNCHANGED <<autoMergePullRequestsPending, sweeps>>

\* autoMergePullRequest(repoName, prNumber) is called
StartPass(d, l, repoName, prNumber, ret) ==
  Goto(d, [l EXCEPT !.repoName = repoName, !.prNumber = prNumber, !.amRet = ret,
                    !.pass = @ + 1, !.state = "", !.mergeable = "", !.sha = <<>>,
                    !.reason = ""],
       "am_info")

\* lines 282-285: the loop over the listing
NextPr(d, l) ==
  IF l.openPrs = <<>>
  THEN SweepLoop(d, l)
  ELSE StartPass(d, [l EXCEPT !.openPrs = Tail(@)], l.repoName, Head(l.openPrs), "sweep")

\* autoMergePullRequest returns
AmReturn(d, l) == IF l.amRet = "sweep" THEN NextPr(d, l) ELSE Finish(d, l, "ok")

\* a sweep whose error leaves the handler, as if the catch were onGithub's only
ThrowOutOfLoop(d, l) == Finish(d, l, "caught")

\* a remote call threw: into the sweep loop's catch, or into onGithub's
Throw(d, l) == IF InSweep(d) THEN SweepLoop(d, l) ELSE Finish(d, l, "caught")

\* triggerPullRequestCI(repoName, prNumber, commit) is called
StartTrigger(d, l, ret) == Goto(d, [l EXCEPT !.trRet = ret], "tr_hasNoCI")

\* triggerPullRequestCI returns: to line 454 or to the end of the handler
TrReturn(d, l) ==
  IF l.trRet = "automerge"
  THEN StartPass(d, l, l.repoName, l.prNumber, "done")
  ELSE Finish(d, l, "ok")

----------------------------------------------------------------------------
(* onGithub: a delivery arrives and its handler runs to its first await *)

\* an onGithubPullRequest that leaves the CI label in place on 'opened'
onGithubPullRequestKeepsLabel(d, e, l0) ==
  LET l == [l0 EXCEPT !.repoName = e.repo, !.prNumber = e.number]
  IN CASE e.action \in {"synchronize", "reopened"} ->
            Goto(d, l, "pr_removeCI")
       [] e.action = "opened" ->
            Goto(d, l, "pr_collab")
       [] e.action = "labeled" ->
            IF ~e.merged THEN Goto(d, l, "lab_hasCI") ELSE Finish(d, l, "ok")
       [] OTHER -> Finish(d, l, "ok")

\* onGithubPullRequest, lines 419-435 and 449-459
onGithubPullRequest(d, e, l0) ==
  LET l == [l0 EXCEPT !.repoName = e.repo, !.prNumber = e.number]
  IN CASE e.action \in {"synchronize", "opened", "reopened"} ->
            Goto(d, l, "pr_removeCI")
       [] e.action = "labeled" ->
            IF ~e.merged THEN Goto(d, l, "lab_hasCI") ELSE Finish(d, l, "ok")
       [] OTHER -> Finish(d, l, "ok")

\* an onGithubStatusUpdate that rewrites whatever the repository
onGithubStatusUpdateAll(d, e, l0) ==
  LET l == [l0 EXCEPT !.name = e.name]
  IN IF isBuildkitePublicLogUrl(e.target_url)
     THEN Goto(d, l, "st_rewrite")
     ELSE Coalesce(d, l)

\* onGithubStatusUpdate, lines 360-379
onGithubStatusUpdate(d, e, l0) ==
  LET l == [l0 EXCEPT !.name = e.name]
  IN IF e.repo \notin PUBLIC_PIPELINE_REPOS /\ isBuildkitePublicLogUrl(e.target_url)
     THEN Goto(d, l, "st_rewrite")
     ELSE Coalesce(d, l)

\* onGithubPullRequestReview, lines 409-416
onGithubPullRequestReview(d, e, l) == StartPass(d, l, e.headRepo, e.number, "done")

\* onGithub, lines 467-485: the deliveries are numbered in the order they arrive
onGithub(d, e) ==
  /\ pc[d] = "idle"
  /\ \A k \in Deliveries : k < d => pc[k] # "idle"
  /\ ev' = [ev EXCEPT ![d] = e]
  /\ bg' = [bg EXCEPT ![d] = IF e.kind = "pull_request" /\ e.action = "synchronize"
                             THEN "hc_hasLabel" ELSE @]
  /\ LET l == [loc[d] EXCEPT !.recvInSweep = \E k \in Deliveries : InSweep(k),
                             !.recvSweeps = Len(sweeps)]
     IN CASE e.kind = "pull_request" -> onGithubPullRequest(d, e, l)
          [] e.kind = "status" -> onGithubStatusUpdate(d, e, l)
          [] e.kind = "pull_request_review" -> onGithubPullRequestReview(d, e, l)
          [] OTHER -> Finish(d, l, "ok")
  /\ UNCHANGED <<github, calls, ciLabelEver, faults, labelings>>

----------------------------------------------------------------------------
(* onGithubPullRequest, opened / reopened / synchronize: lines 436-447 *)

PendingDescription ==
  <<"A project member must add the '", CI_LABEL, "' label for tests to start">>

Target(d) == PR(loc[d].repoName, loc[d].prNumber)

\* line 436: await prRemoveLabel(repoName, prNumber, CI_LABEL)
PrRemoveCI(d) ==
  /\ pc[d] = "pr_removeCI"
  /\ \E ok \in Outcomes :
       /\ labels' = LabelsAfterRemove(Target(d), CI_LABEL, ok)
       /\ Issue(d, Call(d, "removeLabel", Target(d), <<>>, CI_LABEL,
                        prRemoveLabel(Target(d), CI_LABEL, ok),
                        removeLabelSucceeds(Target(d), CI_LABEL, ok)))
       /\ Fault(d, ok)
       /\ Goto(d, loc[d], "pr_collab")
  /\ UNCHANGED <<prs, statuses, ev, bg, ciLabelEver, labelings>>

\* line 438: await userInCiWhitelist(repoName, user)
PrCollab(d) ==
  /\ pc[d] = "pr_collab"
  /\ \E ok \in Outcomes :
       LET user == ev[d].sender
           collaborator == user \in Collaborators
           trusted == userInCiWhitelist(user, collaborator, ok)
       IN /\ Issue(d, Call(d, "collaborators", Target(d), <<>>, user, trusted, ok))
          /\ Fault(d, ok)
          /\ IF trusted THEN StartTrigger(d, loc[d], "done")
                        ELSE Goto(d, loc[d], "pr_pending")
  /\ UNCHANGED <<github, ev, bg, ciLabelEver, labelings>>

\* lines 441-445: the pending status
PrPending(d) ==
  /\ pc[d] = "pr_pending"
  /\ \E ok \in Outcomes :
       LET st == [state |-> "pending", description |-> PendingDescription,
                  target_url |-> NoUrl]
       IN /\ statuses' = StatusesAfterPost(ev[d].sha, STATUS_CONTEXT, st, ok)
          /\ Issue(d, Call(d, "status", Target(d), ev[d].sha,
                           [context |-> STATUS_CONTEXT, status |-> st], ok, ok))
          /\ Fault(d, ok)
          /\ IF ok THEN Finish(d, loc[d], "ok") ELSE Throw(d, loc[d])
  /\ UNCHANGED <<prs, labels, ev, bg, ciLabelEver, labelings>>

\* lines 450-454: labeled, await prHasLabel(repoName, prNumber, CI_LABEL)
LabHasCI(d) ==
  /\ pc[d] = "lab_hasCI"
  /\ \E ok0 \in Outcomes :
       LET ok == ok0 /\ Target(d) \in DOMAIN labels
           reply == IF ok THEN labels[Target(d)] ELSE {}
       IN /\ Issue(d, Call(d, "labels", Target(d), <<>>, CI_LABEL, reply, ok))
          /\ Fault(d, ok0)
          /\ IF ~ok THEN Throw(d, loc[d])
             ELSE IF prHasLabel(reply, CI_LABEL)
                  THEN StartTrigger(d, loc[d], "automerge")
                  ELSE StartPass(d, loc[d], loc[d].repoName, loc[d].prNumber, "done")
  /\ UNCHANGED <<github, ev, bg, ciLabelEver, labelings>>

----------------------------------------------------------------------------
(* triggerPullRequestCI(repoName, prNumber, commit): lines 97-150.         *)
(* commit is the payload's head SHA, ev[d].sha.                            *)

NoCIDescription == <<"Remove ", NOCI_LABEL, " label to continue">>
AcceptedDescription == <<"Pull Request accepted for CI">>
NotPresentDescription(repoName) == <<pipelineName(repoName), " CI pipeline not present">>

\* github: the files pr.files() lists
PrFiles == <<"README.md", "index.js">>
\* prFilenames.join(':')
RECURSIVE join(_, _)
join(names, sep) ==
  IF names = <<>> THEN <<>>
  ELSE IF Len(names) = 1 THEN names
  ELSE <<Head(names), sep>> \o join(Tail(names), sep)

\* the build request of lines 128-135
BuildRequest(repoName, prNumber, commit) ==
  [pipeline |-> pipelineName(repoName),
   branch |-> <<"pull/", prNumber, "/head">>,
   commit |-> commit,
   message |-> <<"Pull Request #", prNumber, " - ", substring(commit, 0, 8)>>,
   affected_files |-> join(PrFiles, ":")]

\* line 101: await prHasLabel(repoName, prNumber, NOCI_LABEL)
TrHasNoCI(d) ==
  /\ pc[d] = "tr_hasNoCI"
  /\ \E ok0 \in Outcomes :
       LET ok == ok0 /\ Target(d) \in DOMAIN labels
           reply == IF ok THEN labels[Target(d)] ELSE {}
       IN /\ Issue(d, Call(d, "labels", Target(d), <<>>, NOCI_LABEL, reply, ok))
          /\ Fault(d, ok0)
          /\ IF ~ok THEN Throw(d, loc[d])
             ELSE IF prHasLabel(reply, NOCI_LABEL)
                  THEN Goto(d, loc[d], "tr_failStatus")
                  ELSE Goto(d, loc[d], "tr_files")
  /\ UNCHANGED <<github, ev, bg, ciLabelEver, labelings>>

\* a trigger that takes the noCI label off the pull request as it refuses
TrFailStatusRemovesNoCI(d) ==
  /\ pc[d] = "tr_failStatus"
  /\ \E ok \in Outcomes :
       LET st == [state |-> "failure", description |-> NoCIDescription,
                  target_url |-> NoUrl]
       IN /\ statuses' = StatusesAfterPost(ev[d].sha, STATUS_CONTEXT, st, ok)
          /\ labels' = LabelsAfterRemove(Target(d), NOCI_LABEL, ok)
          /\ Issue(d, Call(d, "status", Target(d), ev[d].sha,
                           [context |-> STATUS_CONTEXT, status |-> st], ok, ok))
          /\ Fault(d, ok)
          /\ IF ok THEN TrReturn(d, loc[d]) ELSE Throw(d, loc[d])
  /\ UNCHANGED <<prs, ev, bg, ciLabelEver, labelings>>

\* lines 102-107: the failure status, then return
TrFailStatus(d) ==
  /\ pc[d] = "tr_failStatus"
  /\ \E ok \in Outcomes :
       LET st == [state |-> "failure", description |-> NoCIDescription,
                  target_url |-> NoUrl]
       IN /\ statuses' = StatusesAfterPost(ev[d].sha, STATUS_CONTEXT, st, ok)
          /\ Issue(d, Call(d, "status", Target(d), ev[d].sha,
                           [context |-> STATUS_CONTEXT, status |-> st], ok, ok))
          /\ Fault(d, ok)
          /\ IF ok THEN TrReturn(d, loc[d]) ELSE Throw(d, loc[d])
  /\ UNCHANGED <<prs, labels, ev, bg, ciLabelEver, labelings>>

\* line 115: await pr.filesAsync()
TrFiles(d) ==
  /\ pc[d] = "tr_files"
  /\ \E ok0 \in Outcomes :
       LET ok == ok0 /\ Target(d) \in DOMAIN prs
       IN /\ Issue(d, Call(d, "files", Target(d), <<>>, <<>>, PrFiles, ok))
          /\ Fault(d, ok0)
          /\ IF ok THEN Goto(d, loc[d], "tr_pipeline") ELSE Throw(d, loc[d])
  /\ UNCHANGED <<github, ev, bg, ciLabelEver, labelings>>

\* a trigger that fails when the organization has no pipeline of that name
TrPipelineRequired(d) ==
  /\ pc[d] = "tr_pipeline"
  /\ \E ok \in Outcomes :
       LET slug == pipelineName(loc[d].repoName)
           pipeline == slug \in Pipelines
       IN /\ Issue(d, Call(d, "getPipeline", Target(d), <<>>, slug, pipeline, ok))
          /\ Fault(d, ok)
          /\ IF ok /\ pipeline THEN Goto(d, loc[d], "tr_build")
                               ELSE Throw(d, loc[d])
  /\ UNCHANGED <<github, ev, bg, ciLabelEver, labelings>>

\* lines 120-125: await buildkiteOrg.getPipelineAsync(pipelineName)
TrPipeline(d) ==
  /\ pc[d] = "tr_pipeline"
  /\ \E ok \in Outcomes :
       LET slug == pipelineName(loc[d].repoName)
           pipeline == slug \in Pipelines
       IN /\ Issue(d, Call(d, "getPipeline", Target(d), <<>>, slug, pipeline, ok))
          /\ Fault(d, ok)
          /\ IF ~ok THEN Throw(d, loc[d])
             ELSE IF pipeline
                  THEN Goto(d, loc[d], "tr_build")
                  ELSE Goto(d, [loc[d] EXCEPT !.description =
                                  NotPresentDescription(loc[d].repoName)],
                            "tr_status")
  /\ UNCHANGED <<github, ev, bg, ciLabelEver, labelings>>

\* a trigger that removes the CI label right after the build, without the status
TrBuildThenRemove(d) ==
  /\ pc[d] = "tr_build"
  /\ \E ok \in Outcomes :
       /\ Issue(d, Call(d, "createBuild", Target(d), ev[d].sha,
                        BuildRequest(loc[d].repoName, loc[d].prNumber, ev[d].sha),
                        ok, ok))
       /\ Fault(d, ok)
       /\ IF ok THEN Goto(d, [loc[d] EXCEPT !.description = AcceptedDescription],
                          "tr_removeCI")
                ELSE Throw(d, loc[d])
  /\ UNCHANGED <<github, ev, bg, ciLabelEver, labelings>>

\* a trigger that posts the status whether or not the build was submitted
TrBuildIgnoresFailure(d) ==
  /\ pc[d] = "tr_build"
  /\ \E ok \in Outcomes :
       /\ Issue(d, Call(d, "createBuild", Target(d), ev[d].sha,
                        BuildRequest(loc[d].repoName, loc[d].prNumber, ev[d].sha),
                        ok, ok))
       /\ Fault(d, ok)
       /\ Goto(d, [loc[d] EXCEPT !.description = AcceptedDescription], "tr_status")
  /\ UNCHANGED <<github, ev, bg, ciLabelEver, labelings>>

\* lines 128-137: await pipeline.createBuildAsync(...)
TrBuild(d) ==
  /\ pc[d] = "tr_build"
  /\ \E ok \in Outcomes :
       /\ Issue(d, Call(d, "createBuild", Target(d), ev[d].sha,
                        BuildRequest(loc[d].repoName, loc[d].prNumber, ev[d].sha),
                        ok, ok))
       /\ Fault(d, ok)
       /\ IF ok THEN Goto(d, [loc[d] EXCEPT !.description = AcceptedDescription],
                          "tr_status")
                ELSE Throw(d, loc[d])
  /\ UNCHANGED <<github, ev, bg, ciLabelEver, labelings>>

\* lines 140-147: the success status
TrStatus(d) ==
  /\ pc[d] = "tr_status"
  /\ \E ok \in Outcomes :
       LET st == [state |-> "success", description |-> loc[d].description,
                  target_url |-> NoUrl]
       IN /\ statuses' = StatusesAfterPost(ev[d].sha, STATUS_CONTEXT, st, ok)
          /\ Issue(d, Call(d, "status", Target(d), ev[d].sha,
                           [context |-> STATUS_CONTEXT, status |-> st], ok, ok))
          /\ Fault(d, ok)
          /\ IF ok THEN Goto(d, loc[d], "tr_removeCI") ELSE Throw(d, loc[d])
  /\ UNCHANGED <<prs, labels, ev, bg, ciLabelEver, labelings>>

\* line 149: await prRemoveLabel(repoName, prNumber, CI_LABEL)
TrRemoveCI(d) ==
  /\ pc[d] = "tr_removeCI"
  /\ \E ok \in Outcomes :
       /\ labels' = LabelsAfterRemove(Target(d), CI_LABEL, ok)
       /\ Issue(d, Call(d, "removeLabel", Target(d), <<>>, CI_LABEL,
                        prRemoveLabel(Target(d), CI_LABEL, ok),
                        removeLabelSucceeds(Target(d), CI_LABEL, ok)))
       /\ Fault(d, ok)
       /\ TrReturn(d, loc[d])
  /\ UNCHANGED <<prs, statuses, ev, bg, ciLabelEver, labelings>>

----------------------------------------------------------------------------
(* autoMergePullRequest(repoName, prNumber): lines 194-262 *)

ConflictBody == ":broken_heart: Unable to automerge due to merge conflict"
CIFailureBody == ":broken_heart: Unable to automerge due to CI failure"
NewCommitsBody == ":scream: New commits were pushed while the automerge label was present."

\* lines 198-204: await pr.infoAsync()
AmInfo(d) ==
  /\ pc[d] = "am_info"
  /\ \E ok0 \in Outcomes :
       LET ok == ok0 /\ Target(d) \in DOMAIN prs
           info == IF ok THEN prs[Target(d)]
                   ELSE [state |-> "", mergeable |-> "", head |-> <<>>]
           l == [loc[d] EXCEPT !.state = info.state, !.mergeable = info.mergeable,
                               !.sha = info.head]
       IN /\ Issue(d, Call(d, "info", Target(d), <<>>, <<>>,
                           [state |-> info.state, mergeable |-> info.mergeable,
                            head |-> info.head], ok))
          /\ Fault(d, ok0)
          /\ IF ~ok THEN Throw(d, loc[d])
             ELSE IF info.state # "open" THEN AmReturn(d, l)
             ELSE Goto(d, l, "am_hasLabel")
  /\ UNCHANGED <<github, ev, bg, ciLabelEver, labelings>>

\* the label and mergeable checks without the test for null
AfterHasLabelNoNull(hasLabel, mergeable) ==
  IF ~hasLabel THEN "return"
  ELSE IF mergeable = "false" THEN "am_remove"
  ELSE "am_combined"

\* the checks of a pass that does not look at the automerge label
AfterHasLabelAnyLabel(hasLabel, mergeable) ==
  IF mergeable = "null" THEN "return"
  ELSE IF mergeable = "false" THEN "am_remove"
  ELSE "am_combined"

\* lines 206-226: what follows the label check
AfterHasLabel(hasLabel, mergeable) ==
  IF ~hasLabel THEN "return"
  ELSE IF mergeable = "null" THEN "return"
  ELSE IF mergeable = "false" THEN "am_remove"
  ELSE "am_combined"

\* the switch without the count of statuses
AfterCombinedStatusNoCount(status) ==
  IF status.state = "success" THEN "am_merge"
  ELSE IF status.state = "failure" THEN "am_remove"
  ELSE "return"

\* the switch of a pass that leaves a failed pull request as it is
AfterCombinedStatusIgnoreFailure(status) ==
  IF status.state = "success"
  THEN IF status.count < 2 THEN "return" ELSE "am_merge"
  ELSE "return"

\* lines 232-261: the switch on the combined status
AfterCombinedStatus(status) ==
  IF status.state = "success"
  THEN IF status.count < 2 THEN "return" ELSE "am_merge"
  ELSE IF status.state = "failure" THEN "am_remove"
  ELSE "return"

\* lines 206-224: await prHasLabel(..., AUTOMERGE_LABEL), then the mergeable value
AmHasLabel(d) ==
  /\ pc[d] = "am_hasLabel"
  /\ \E ok0 \in Outcomes :
       LET ok == ok0 /\ Target(d) \in DOMAIN labels
           reply == IF ok THEN labels[Target(d)] ELSE {}
       IN /\ Issue(d, Call(d, "labels", Target(d), <<>>, AUTOMERGE_LABEL, reply, ok))
          /\ Fault(d, ok0)
          /\ LET next == AfterHasLabel(prHasLabel(reply, AUTOMERGE_LABEL),
                                        loc[d].mergeable)
             IN IF ~ok THEN Throw(d, loc[d])
                ELSE IF next = "return" THEN AmReturn(d, loc[d])
                ELSE Goto(d, [loc[d] EXCEPT !.reason = "conflict"], next)
  /\ UNCHANGED <<github, ev, bg, ciLabelEver, labelings>>

\* lines 218 and 251: await prRemoveLabel(repoName, prNumber, AUTOMERGE_LABEL)
AmRemove(d) ==
  /\ pc[d] = "am_remove"
  /\ \E ok \in Outcomes :
       /\ labels' = LabelsAfterRemove(Target(d), AUTOMERGE_LABEL, ok)
       /\ Issue(d, Call(d, "removeLabel", Target(d), <<>>, AUTOMERGE_LABEL,
                        prRemoveLabel(Target(d), AUTOMERGE_LABEL, ok),
                        removeLabelSucceeds(Target(d), AUTOMERGE_LABEL, ok)))
       /\ Fault(d, ok)
       /\ IF prRemoveLabel(Target(d), AUTOMERGE_LABEL, ok)
          THEN Goto(d, loc[d], "am_comment")
          ELSE AmReturn(d, loc[d])
  /\ UNCHANGED <<prs, statuses, ev, bg, ciLabelEver, labelings>>

\* lines 219-221 and 252-254: await issue.createCommentAsync({body})
AmComment(d) ==
  /\ pc[d] = "am_comment"
  /\ \E ok0 \in Outcomes :
       LET ok == ok0 /\ Target(d) \in DOMAIN prs
           body == IF loc[d].reason = "conflict" THEN ConflictBody ELSE CIFailureBody
       IN /\ Issue(d, Call(d, "createComment", Target(d), <<>>, body, ok, ok))
          /\ Fault(d, ok0)
          /\ IF ok THEN AmReturn(d, loc[d]) ELSE Throw(d, loc[d])
  /\ UNCHANGED <<github, ev, bg, ciLabelEver, labelings>>

\* lines 228-260: await repo.combinedStatusAsync(head.sha), then the switch
AmCombined(d) ==
  /\ pc[d] = "am_combined"
  /\ \E ok \in Outcomes :
       LET status == combinedStatus(loc[d].sha)
       IN /\ Issue(d, Call(d, "combinedStatus", Target(d), loc[d].sha, <<>>,
                           status, ok))
          /\ Fault(d, ok)
          /\ LET next == AfterCombinedStatus(status)
             IN IF ~ok THEN Throw(d, loc[d])
                ELSE IF next = "return" THEN AmReturn(d, loc[d])
                ELSE Goto(d, [loc[d] EXCEPT !.reason = "failure"], next)
  /\ UNCHANGED <<github, ev, bg, ciLabelEver, labelings>>

\* lines 239-244: await pr.mergeAsync({sha: head.sha, ...})
AmMerge(d) ==
  /\ pc[d] = "am_merge"
  /\ \E ok0 \in Outcomes :
       LET ok == mergeSucceeds(Target(d), loc[d].sha, ok0)
       IN /\ prs' = PrsAfterMerge(Target(d), loc[d].sha, ok0)
          /\ Issue(d, Call(d, "merge", Target(d), loc[d].sha,
                           [sha |-> loc[d].sha, commit_message |-> "automerge",
                            merge_method |-> "rebase"], ok, ok))
          /\ Fault(d, ok0)
          /\ IF ok THEN AmReturn(d, loc[d]) ELSE Throw(d, loc[d])
  /\ UNCHANGED <<labels, statuses, ev, bg, ciLabelEver, labelings>>

----------------------------------------------------------------------------
(* onGithubStatusUpdate and autoMergePullRequests: lines 264-286, 375-407 *)

\* line 377: envconst.PUBLIC_URL_ROOT + '/buildkite_public_log?' + target_url
new_target_url(target_url) == PUBLIC_URL_ROOT \o PublicLogPath \o target_url

\* a handler that asks for the sweep whether or not the re-post succeeded
StRewriteThenCoalesce(d) ==
  /\ pc[d] = "st_rewrite"
  /\ \E ok \in Outcomes :
       LET e == ev[d]
           st == [state |-> e.state, description |-> e.description,
                  target_url |-> new_target_url(e.target_url)]
       IN /\ statuses' = StatusesAfterPost(e.sha, e.context, st, ok)
          /\ Issue(d, Call(d, "status", <<e.name, 0>>, e.sha,
                           [context |-> e.context, status |-> st], ok, ok))
          /\ Fault(d, ok)
          /\ Coalesce(d, loc[d])
  /\ UNCHANGED <<prs, labels, ev, bg, ciLabelEver, labelings>>

\* lines 379-385: await repo.statusAsync(sha, {..., target_url: new_target_url});
\* then lines 390-397
StRewrite(d) ==
  /\ pc[d] = "st_rewrite"
  /\ \E ok \in Outcomes :
       LET e == ev[d]
           st == [state |-> e.state, description |-> e.description,
                  target_url |-> new_target_url(e.target_url)]
       IN /\ statuses' = StatusesAfterPost(e.sha, e.context, st, ok)
          /\ Issue(d, Call(d, "status", <<e.name, 0>>, e.sha,
                           [context |-> e.context, status |-> st], ok, ok))
          /\ Fault(d, ok)
          /\ IF ok THEN Coalesce(d, loc[d]) ELSE Finish(d, loc[d], "caught")
  /\ UNCHANGED <<prs, labels, ev, bg, ciLabelEver, labelings>>

\* lines 267-285: the listing of the repository's pull requests, then the loop
SwList(d) ==
  /\ pc[d] = "sw_list"
  /\ \E ok \in Outcomes :
       LET listing == IF ok THEN openPrs(loc[d].repoName) ELSE <<>>
       IN /\ Issue(d, Call(d, "prs", <<loc[d].repoName, 0>>, <<>>, <<>>, listing, ok))
          /\ Fault(d, ok)
          /\ IF ok THEN NextPr(d, [loc[d] EXCEPT !.openPrs = listing])
                   ELSE Throw(d, loc[d])
  /\ UNCHANGED <<github, ev, bg, ciLabelEver, labelings>>

----------------------------------------------------------------------------
(* handleCommitsPushedToPullRequest(repoName, prNumber): lines 178-192,    *)
(* called without await at line 431: it runs beside the handler, and an    *)
(* error it throws is a rejection nothing handles.                         *)

EventPr(d) == PR(ev[d].repo, ev[d].number)

\* line 182: await prHasLabel(repoName, prNumber, AUTOMERGE_LABEL)
HcHasLabel(d) ==
  /\ bg[d] = "hc_hasLabel"
  /\ \E ok0 \in Outcomes :
       LET ok == ok0 /\ EventPr(d) \in DOMAIN labels
           reply == IF ok THEN labels[EventPr(d)] ELSE {}
       IN /\ Issue(d, BgCall("labels", EventPr(d), AUTOMERGE_LABEL, reply, ok))
          /\ Fault(d, ok0)
          /\ bg' = [bg EXCEPT ![d] = IF ~ok THEN "rejected"
                                     ELSE IF prHasLabel(reply, AUTOMERGE_LABEL)
                                          THEN "hc_remove" ELSE "done"]
  /\ UNCHANGED <<github, ev, pc, loc, outcome, flags, ciLabelEver, labelings>>

\* a handleCommitsPushedToPullRequest that comments whatever the removal returned
HcRemoveAlwaysComments(d) ==
  /\ bg[d] = "hc_remove"
  /\ \E ok \in Outcomes :
       /\ labels' = LabelsAfterRemove(EventPr(d), AUTOMERGE_LABEL, ok)
       /\ Issue(d, BgCall("removeLabel", EventPr(d), AUTOMERGE_LABEL,
                          prRemoveLabel(EventPr(d), AUTOMERGE_LABEL, ok),
                          removeLabelSucceeds(EventPr(d), AUTOMERGE_LABEL, ok)))
       /\ Fault(d, ok)
       /\ bg' = [bg EXCEPT ![d] = "hc_comment"]
  /\ UNCHANGED <<prs, statuses, ev, pc, loc, outcome, flags, ciLabelEver, labelings>>

\* line 187: await prRemoveLabel(repoName, prNumber, AUTOMERGE_LABEL)
HcRemove(d) ==
  /\ bg[d] = "hc_remove"
  /\ \E ok \in Outcomes :
       /\ labels' = LabelsAfterRemove(EventPr(d), AUTOMERGE_LABEL, ok)
       /\ Issue(d, BgCall("removeLabel", EventPr(d), AUTOMERGE_LABEL,
                          prRemoveLabel(EventPr(d), AUTOMERGE_LABEL, ok),
                          removeLabelSucceeds(EventPr(d), AUTOMERGE_LABEL, ok)))
       /\ Fault(d, ok)
       /\ bg' = [bg EXCEPT ![d] = IF prRemoveLabel(EventPr(d), AUTOMERGE_LABEL, ok)
                                  THEN "hc_comment" ELSE "done"]
  /\ UNCHANGED <<prs, statuses, ev, pc, loc, outcome, flags, ciLabelEver, labelings>>

\* lines 188-190: await issue.createCommentAsync({body})
HcComment(d) ==
  /\ bg[d] = "hc_comment"
  /\ \E ok0 \in Outcomes :
       LET ok == ok0 /\ EventPr(d) \in DOMAIN prs
       IN /\ Issue(d, BgCall("createComment", EventPr(d), NewCommitsBody, ok, ok))
          /\ Fault(d, ok0)
          /\ bg' = [bg EXCEPT ![d] = IF ok THEN "done" ELSE "rejected"]
  /\ UNCHANGED <<github, ev, pc, loc, outcome, flags, ciLabelEver, labelings>>

----------------------------------------------------------------------------
(* The project's members *)

\* a project member applies a label to a pull request
MemberAddsLabel(pr, l) ==
  /\ labelings < MaxLabelings
  /\ pr \in DOMAIN labels
  /\ \A m \in labels[pr] : toLowerCase(m) # toLowerCase(l)
  /\ labels' = [labels EXCEPT ![pr] = @ \cup {l}]
  /\ ciLabelEver' = [ciLabelEver EXCEPT ![pr] = @ \/ toLowerCase(l) = toLowerCase(CI_LABEL)]
  /\ labelings' = labelings + 1
  /\ UNCHANGED <<prs, statuses, ev, pc, loc, bg, outcome, calls, flags, faults>>

----------------------------------------------------------------------------
(* Initial states *)

NoStatuses == [k \in Shas \X Contexts |-> NoStatus]
SuccessStatus == [state |-> "success", description |-> <<"Build">>, target_url |-> NoUrl]
OpenPr(sha, author, mergeable) ==
  [state |-> "open", mergeable |-> mergeable, merged |-> FALSE, head |-> sha,
   author |-> author]

\* no delivery has arrived, nothing has failed
InitHandlers ==
  /\ ev = [d \in Deliveries |-> BlankEvent]
  /\ pc = [d \in Deliveries |-> "idle"]
  /\ loc = [d \in Deliveries |-> LocInit]
  /\ bg = [d \in Deliveries |-> "none"]
  /\ outcome = [d \in Deliveries |-> "none"]
  /\ calls = [d \in Deliveries |-> <<>>]
  /\ autoMergePullRequestsBusy = FALSE
  /\ autoMergePullRequestsPending = FALSE
  /\ sweeps = <<>>
  /\ faults = [d \in Deliveries |-> 0]
  /\ labelings = 0

Quiescent ==
  /\ \A d \in Deliveries : pc[d] \in {"idle", "done"}
  /\ \A d \in Deliveries : bg[d] \in {"none", "done", "rejected"}

----------------------------------------------------------------------------
(* Spec: the gate.  One pull request of a third party (mallory); its       *)
(* pull_request events arrive in any order and overlap, each any number of *)
(* times; a project member (alice) may apply the CI label.                 *)

\* the author opens the pull request and pushes to it; a project member
\* reopens it, pushes to it and labels it
GateEvents ==
  {PullRequestEvent("opened", OrgRepo, 7, "mallory", ShaA, FALSE),
   PullRequestEvent("synchronize", OrgRepo, 7, "mallory", ShaA, FALSE),
   PullRequestEvent("reopened", OrgRepo, 7, "alice", ShaA, FALSE),
   PullRequestEvent("labeled", OrgRepo, 7, "alice", ShaA, FALSE)}

Init ==
  /\ prs = (PrA :> OpenPr(ShaA, "mallory", "true"))
  /\ \E L \in SUBSET {"CI", "NOCI"} :
       /\ labels = (PrA :> L)
       /\ ciLabelEver = (PrA :> prHasLabel(L, CI_LABEL))
  /\ statuses = NoStatuses
  /\ InitHandlers

Next ==
  \/ \E d \in 1..MaxDeliveries :
       \/ \E e \in GateEvents : onGithub(d, e)
       \/ PrRemoveCI(d)
       \/ PrCollab(d)
       \/ PrPending(d)
       \/ LabHasCI(d)
       \/ TrHasNoCI(d)
       \/ TrFailStatus(d)
       \/ TrFiles(d)
       \/ TrPipeline(d)
       \/ TrBuild(d)
       \/ TrStatus(d)
       \/ TrRemoveCI(d)
       \/ AmInfo(d)
       \/ AmHasLabel(d)
       \/ HcHasLabel(d)
  \/ MemberAddsLabel(PrA, CI_LABEL)

Spec == Init /\ [][Next]_vars

\* the remote calls of all handlers, as <<delivery, index>>
AllCalls == {<<d, i>> \in Deliveries \X (1..40) : i <= Len(calls[d])}
CallAt(k) == calls[k[1]][k[2]]

Trusted(user) ==
  user \in Collaborators \/ \E i \in 1..Len(CI_USER_WHITELIST) : CI_USER_WHITELIST[i] = user

BuildsFor(pr) == {k \in AllCalls : CallAt(k).op = "createBuild" /\ CallAt(k).pr = pr}

\* (a) of C1: the handler handles opened/reopened/synchronize and its trust check said yes
ClassifiedTrusted(k) ==
  /\ ev[k[1]].action \in {"opened", "reopened", "synchronize"}
  /\ \E j \in 1..(k[2] - 1) :
       calls[k[1]][j].op = "collaborators" /\ calls[k[1]][j].res = TRUE

\* (b) of C1: the handler handles labeled for an unmerged pull request and read the CI label
ObservedCILabel(k) ==
  /\ ev[k[1]].action = "labeled" /\ ~ev[k[1]].merged
  /\ \E j \in 1..(k[2] - 1) :
       /\ calls[k[1]][j].op = "labels" /\ calls[k[1]][j].arg = CI_LABEL
       /\ calls[k[1]][j].res \cap {"CI", "ci", "Ci"} # {}

\* every build was asked for by a handler of kind (a) or (b)
BuildsOnlyWhenTrustedOrLabeled ==
  \A k \in AllCalls :
    CallAt(k).op = "createBuild" => ClassifiedTrusted(k) \/ ObservedCILabel(k)

\* C1: a build-creation call is issued only by a handler that classified the
\* user as trusted (opened/reopened/synchronize) or that observed the CI label
\* (labeled, not merged); and a pull request of an untrusted author on which the
\* CI label was never applied never gets a build.
C1_TrustBoundary ==
  /\ BuildsOnlyWhenTrustedOrLabeled
  /\ \A pr \in DOMAIN prs :
       ~Trusted(prs[pr].author) /\ ~ciLabelEver[pr] => BuildsFor(pr) = {}

\* the calls of delivery d's handler itself, without those of its un-awaited task
IsMain(c) == c.task = "main"
MainCalls(d) == SelectSeq(calls[d], IsMain)

\* the spellings of the noCI label
NoCISpellings == {"noCI", "NOCI", "NoCi", "noci"}

\* call c is triggerPullRequestCI's label check and its reply carries noCI
SawNoCI(c) ==
  /\ c.op = "labels" /\ c.arg = NOCI_LABEL /\ c.ok
  /\ c.res \cap NoCISpellings # {}

\* call c posts the failure status that names the noCI label on the head commit
IsNoCIFailureStatus(d, c) ==
  /\ c.op = "status" /\ c.sha = ev[d].sha
  /\ c.arg.context = "ci-gate"
  /\ c.arg.status.state = "failure"
  /\ \E i \in 1..Len(c.arg.status.description) : c.arg.status.description[i] = "noCI"

\* C2: whenever triggerPullRequestCI finds the noCI label on the pull request,
\* in any spelling, it issues no pipeline lookup and no build creation, and the
\* call that follows the label check posts a failure status under ci-gate on the
\* head commit, whose description names noCI; on every path into the trigger.
C2_NoCISuppresses ==
  \A d \in Deliveries :
    LET m == MainCalls(d)
    IN \A i \in 1..Len(m) :
         SawNoCI(m[i]) =>
           /\ \A j \in (i + 1)..Len(m) :
                m[j].op \notin {"files", "getPipeline", "createBuild"}
           /\ IF Len(m) > i THEN IsNoCIFailureStatus(d, m[i + 1])
                            ELSE pc[d] = "tr_failStatus"

\* the trigger was reached from a labeled event and from a trusted reopened event,
\* found the label spelled NOCI, and posted the failure status
C2_Witness ==
  \E d1, d2 \in Deliveries :
    /\ ev[d1].action = "labeled" /\ ev[d2].action = "reopened"
    /\ \A d \in {d1, d2} :
         \E i \in 1..Len(MainCalls(d)) :
           /\ SawNoCI(MainCalls(d)[i]) /\ "NOCI" \in MainCalls(d)[i].res
           /\ Len(MainCalls(d)) > i
           /\ IsNoCIFailureStatus(d, MainCalls(d)[i + 1])

----------------------------------------------------------------------------
(* SpecMerge: reconciliation.  One pull request of the project; labeled,   *)
(* pull_request_review and status events for it arrive in any order and    *)
(* overlap; a project member may apply the automerge label.                *)

StatusOf(state) == [state |-> state, description |-> <<"Build">>, target_url |-> NoUrl]

MergeEvents ==
  {PullRequestEvent("labeled", OrgRepo, 7, "alice", ShaA, FALSE),
   ReviewEvent(OrgRepo, OrgRepo, 7),
   StatusEvent(OrgRepo, ShaA, BuildkiteContext, "success", NoUrl)}

InitMerge ==
  /\ \E state \in {"open", "closed"}, mergeable \in {"true", "false", "null"} :
       prs = (PrA :> [OpenPr(ShaA, "alice", mergeable) EXCEPT !.state = state])
  /\ \E L \in SUBSET {"automerge"} : labels = (PrA :> L)
  /\ ciLabelEver = (PrA :> FALSE)
  /\ \E gate \in {"none", "success"},
        build \in {"none", "success", "failure", "pending"} :
       statuses = [k \in Shas \X Contexts |->
                     IF k = <<ShaA, STATUS_CONTEXT>> /\ gate # "none" THEN StatusOf(gate)
                     ELSE IF k = <<ShaA, BuildkiteContext>> /\ build # "none"
                          THEN StatusOf(build)
                     ELSE NoStatus]
  /\ InitHandlers

NextMerge ==
  \/ \E d \in 1..MaxDeliveries :
       \/ \E e \in MergeEvents : onGithub(d, e)
       \/ LabHasCI(d)
       \/ SwList(d)
       \/ AmInfo(d)
       \/ AmHasLabel(d)
       \/ AmRemove(d)
       \/ AmComment(d)
       \/ AmCombined(d)
       \/ AmMerge(d)
  \/ MemberAddsLabel(PrA, AUTOMERGE_LABEL)

SpecMerge == InitMerge /\ [][NextMerge]_vars

----------------------------------------------------------------------------
(* Reconciliation passes, read off the call log.  Pass <<d, p>> is the     *)
(* p-th call of autoMergePullRequest by the handler of delivery d.         *)

Passes == UNION {{<<d, p>> : p \in 1..loc[d].pass} : d \in Deliveries}

\* the remote calls of pass q, in order
PassCalls(q) ==
  SelectSeq(calls[q[1]], LAMBDA c : IsMain(c) /\ c.pass = q[2] /\ c.op # "prs")

\* pass q has not returned yet
PassRunning(q) == q[2] = loc[q[1]].pass /\ pc[q[1]] \in AmPcs

AutomergeSpellings == {"automerge", "Automerge", "AUTOMERGE"}

\* what pass q read
SawInfo(m) == Len(m) >= 1 /\ m[1].op = "info" /\ m[1].ok
SawLabels(m) == Len(m) >= 2 /\ m[2].op = "labels" /\ m[2].ok
SawAutomerge(m) == SawLabels(m) /\ m[2].res \cap AutomergeSpellings # {}
SawCombined(m) == Len(m) >= 3 /\ m[3].op = "combinedStatus" /\ m[3].ok

MergeCalls(pr, sha) ==
  {k \in AllCalls : CallAt(k).op = "merge" /\ CallAt(k).pr = pr /\ CallAt(k).sha = sha}

\* C6: for one pull request, the passes that labeled, pull_request_review and
\* status events start, concurrently or by redelivery, issue at most one merge
\* call for the head commit (stated for the runs in which no remote call fails).
C6_NoDuplicateMerge ==
  Sum(faults, Deliveries) = 0 =>
    \A pr \in DOMAIN prs : \A sha \in Shas : Cardinality(MergeCalls(pr, sha)) <= 1

MergeArgument(sha) == [sha |-> sha, commit_message |-> "automerge", merge_method |-> "rebase"]

\* pass q read: open, automerge label present, mergeable, combined status success
ReadyToMerge(m) ==
  /\ SawInfo(m) /\ m[1].res.state = "open" /\ m[1].res.mergeable = "true"
  /\ SawAutomerge(m)
  /\ SawCombined(m) /\ m[3].res.state = "success"

\* C7: a pass that read an open, labeled, mergeable pull request whose combined
\* status is success issues no merge call when the status counts fewer than 2
\* statuses, and otherwise exactly one merge call, its next call, with
\* commit_message 'automerge', merge_method 'rebase' and the head SHA it read.
C7_MergeOnEvidence ==
  \A q \in Passes :
    LET m == PassCalls(q)
    IN ReadyToMerge(m) =>
         IF m[3].res.count < 2
         THEN Len(m) = 3 /\ ~PassRunning(q)
         ELSE IF Len(m) = 3
              THEN PassRunning(q) /\ pc[q[1]] = "am_merge"
              ELSE /\ Len(m) = 4 /\ ~PassRunning(q)
                   /\ m[4].op = "merge" /\ m[4].pr = m[1].pr
                   /\ m[4].arg = MergeArgument(m[1].res.head)

\* a pass merged the pull request on two statuses
C7_Witness ==
  \E q \in Passes :
    LET m == PassCalls(q)
    IN /\ ReadyToMerge(m) /\ m[3].res.count = 2
       /\ Len(m) = 4 /\ m[4].op = "merge" /\ m[4].ok
       /\ prs[m[1].pr].merged

\* pass q read: open, automerge label present, not mergeable
Conflicting(m) ==
  /\ SawInfo(m) /\ m[1].res.state = "open" /\ m[1].res.mergeable = "false"
  /\ SawAutomerge(m)

ConflictComments(pr) ==
  {k \in AllCalls : /\ CallAt(k).op = "createComment" /\ CallAt(k).pr = pr
                    /\ CallAt(k).arg = ConflictBody}
\* the removals of the automerge label that removed it
ActualRemovals(pr) ==
  {k \in AllCalls : /\ CallAt(k).op = "removeLabel" /\ CallAt(k).pr = pr
                    /\ CallAt(k).arg = AUTOMERGE_LABEL /\ CallAt(k).ok}
\* the handlers about to post their comment
Commenting(pr) == {d \in Deliveries : pc[d] = "am_comment" /\ Target(d) = pr}

\* C8: a pass that read mergeable=false and the automerge label asks for the
\* label's removal and, when the removal removed it, posts one conflict comment
\* as its next and last call, and no comment otherwise; a pass that read the
\* label as absent posts no comment; and for a pull request that is not
\* mergeable, the conflict comments (posted or about to be) are as many as the
\* removals that removed the label.
C8_CommentPerRemoval ==
  /\ \A q \in Passes :
       LET m == PassCalls(q)
       IN /\ Conflicting(m) =>
               IF Len(m) = 2
               THEN PassRunning(q) /\ pc[q[1]] = "am_remove"
               ELSE /\ m[3].op = "removeLabel" /\ m[3].arg = AUTOMERGE_LABEL
                    /\ IF m[3].ok
                       THEN IF Len(m) = 3
                            THEN PassRunning(q) /\ pc[q[1]] = "am_comment"
                            ELSE /\ Len(m) = 4 /\ ~PassRunning(q)
                                 /\ m[4].op = "createComment"
                                 /\ m[4].arg = ConflictBody
                       ELSE Len(m) = 3 /\ ~PassRunning(q)
          /\ SawLabels(m) /\ ~SawAutomerge(m) =>
               \A i \in 1..Len(m) : m[i].op # "createComment"
  /\ \A pr \in DOMAIN prs :
       prs[pr].mergeable = "false" =>
         Cardinality(ConflictComments(pr)) + Cardinality(Commenting(pr))
           = Cardinality(ActualRemovals(pr))

\* one pass removed the label and posted the conflict comment; another pass of
\* the same not-mergeable pull request found the label gone and returned
C8_Witness ==
  \E q1, q2 \in Passes :
    LET m1 == PassCalls(q1)
        m2 == PassCalls(q2)
    IN /\ Conflicting(m1) /\ Len(m1) = 4 /\ m1[3].ok /\ m1[4].op = "createComment"
       /\ SawInfo(m2) /\ m2[1].res.mergeable = "false" /\ m2[1].pr = m1[1].pr
       /\ SawLabels(m2) /\ ~SawAutomerge(m2) /\ ~PassRunning(q2)
       /\ Cardinality(ConflictComments(m1[1].pr)) = 1

Mutations == {"removeLabel", "createComment", "merge", "status", "createBuild"}

\* pass q read one of: not open; no automerge label; mergeable unknown;
\* mergeable with a combined status that is neither success nor failure
NothingToDo(m) ==
  \/ SawInfo(m) /\ m[1].res.state # "open"
  \/ SawLabels(m) /\ ~SawAutomerge(m)
  \/ SawInfo(m) /\ m[1].res.mergeable = "null"
  \/ /\ SawInfo(m) /\ m[1].res.mergeable = "true"
     /\ SawCombined(m) /\ m[3].res.state \notin {"success", "failure"}

\* C9: a pass that read the pull request as not open, or without the automerge
\* label, or with mergeable unknown (null), or as mergeable with a combined
\* status that is neither success nor failure, issues no label removal, no
\* comment, no merge and no other mutating call, and is not about to.
C9_NoMutation ==
  \A q \in Passes :
    LET m == PassCalls(q)
    IN NothingToDo(m) =>
         /\ \A i \in 1..Len(m) : m[i].op \notin Mutations
         /\ PassRunning(q) => pc[q[1]] \in {"am_hasLabel", "am_combined"}

\* a pass returned on a missing label; after a member applied the label, a pass
\* read it with mergeable unknown and returned
C9_Witness ==
  \E q1, q2 \in Passes :
    LET m1 == PassCalls(q1)
        m2 == PassCalls(q2)
    IN /\ SawLabels(m1) /\ ~SawAutomerge(m1) /\ ~PassRunning(q1)
       /\ SawInfo(m2) /\ m2[1].res.state = "open" /\ m2[1].res.mergeable = "null"
       /\ SawAutomerge(m2) /\ ~PassRunning(q2)

----------------------------------------------------------------------------
(* SpecSweep: coalescing.  Status events of one repository arrive in any   *)
(* number up to MaxStatusEvents and overlap; some carry a buildkite log    *)
(* URL and are re-posted first.  The repository has one open pull request  *)
(* without the automerge label, so a sweep is a listing and one pass.      *)

BuildUrl == orgUrlPrefix \o <<"r","e","p","o">> \o BuildsPath \o <<"4","2">>

SweepEvents ==
  {StatusEvent(OrgRepo, ShaA, STATUS_CONTEXT, "success", NoUrl),
   StatusEvent(OrgRepo, ShaA, BuildkiteContext, "success", BuildUrl)}

InitSweep ==
  /\ prs = (PrA :> OpenPr(ShaA, "alice", "true"))
  /\ labels = (PrA :> {})
  /\ ciLabelEver = (PrA :> FALSE)
  /\ statuses = NoStatuses
  /\ InitHandlers

NextSweep ==
  \E d \in 1..MaxStatusEvents :
    \/ \E e \in SweepEvents : onGithub(d, e)
    \/ StRewrite(d)
    \/ SwList(d)
    \/ AmInfo(d)
    \/ AmHasLabel(d)

SpecSweep == InitSweep /\ [][NextSweep]_vars

\* the status deliveries received while a sweep was in progress
ReceivedInSweep == {d \in Deliveries : ev[d].kind = "status" /\ loc[d].recvInSweep}
SweepRunning == \E k \in Deliveries : InSweep(k)

\* C3: at most one call of autoMergePullRequests is in progress at any time,
\* however many status events are handled concurrently.
C3_OneSweep == Cardinality({d \in Deliveries : InSweep(d)}) <= 1

\* a sweep is in progress while one later status handler awaits its re-post and
\* another has returned on the busy flag
C3_Witness ==
  \E d1, d2, d3 \in Deliveries :
    /\ InSweep(d1)
    /\ pc[d2] = "st_rewrite" /\ loc[d2].recvInSweep
    /\ pc[d3] = "done" /\ loc[d3].flagged /\ loc[d3].flagBusy

\* a sweep that started after delivery d was received has started, or is due:
\* the pending flag is set and a handler is in the sweep loop
HonoredOrDue(d) ==
  \/ Len(sweeps) > loc[d].recvSweeps
  \/ autoMergePullRequestsPending /\ SweepRunning

----------------------------------------------------------------------------
(* SpecBurst: the first status event starts a sweep, and BurstSize more    *)
(* status events of the repository arrive while that sweep is in progress. *)
(* The repository has no open pull request: a sweep is its listing.        *)

BurstArrives(d, e) ==
  /\ d = 1 \/ (Len(sweeps) = 1 /\ SweepRunning)
  /\ onGithub(d, e)

NextBurst ==
  \E d \in 1..(BurstSize + 1) :
    \/ \E e \in SweepEvents : BurstArrives(d, e)
    \/ StRewrite(d)
    \/ SwList(d)

InitBurst ==
  /\ prs = (PrA :> [OpenPr(ShaA, "alice", "true") EXCEPT !.state = "closed"])
  /\ labels = (PrA :> {})
  /\ ciLabelEver = (PrA :> FALSE)
  /\ statuses = NoStatuses
  /\ InitHandlers

SpecBurst == InitBurst /\ [][NextBurst]_vars

\* the status deliveries received during the first sweep
Burst == {d \in ReceivedInSweep : loc[d].recvSweeps = 1}
\* the status deliveries that reached line 390 during the first sweep
CoalescedBurst ==
  {d \in Deliveries : loc[d].flagged /\ loc[d].flagBusy /\ loc[d].flagSweeps = 1}
\* no delivery but the one that started the first sweep and those of B has arrived
OnlyStarterAnd(B) ==
  \A d \in Deliveries : pc[d] # "idle" => d \in B \/ d = sweeps[1].by

\* C5 as stated: when BurstSize status events arrive (are received) while the
\* first sweep is in progress, and no others, at most 2 sweeps start in total.
C5_BurstReceived ==
  Cardinality(Burst) >= BurstSize /\ OnlyStarterAnd(Burst) => Len(sweeps) <= 2

\* C5 for the events that reach the coalescing step (line 390) while the first
\* sweep is in progress: with BurstSize of them, and no others, at most 2 sweeps
\* start in total, and exactly 2 have started once no sweep is running.
C5_BurstCoalesced ==
  Cardinality(CoalescedBurst) >= BurstSize /\ OnlyStarterAnd(CoalescedBurst) =>
    /\ Len(sweeps) <= 2
    /\ ~SweepRunning => Len(sweeps) = 2

\* BurstSize events, one of them re-posted first, returned on the busy flag of
\* the first sweep; the trailing sweep has run and every handler has returned
C5_Witness ==
  /\ Cardinality(CoalescedBurst) >= BurstSize /\ OnlyStarterAnd(CoalescedBurst)
  /\ \E d \in CoalescedBurst : ev[d].target_url = BuildUrl
  /\ Quiescent /\ Len(sweeps) = 2

----------------------------------------------------------------------------
(* SpecRedelivery: two pull requests of one author, alike in everything    *)
(* but number and head commit.  The 'opened' event of the first is         *)
(* delivered once, that of the second up to MaxRedeliveries times, with    *)
(* the same sender; the deliveries overlap.                                *)

Senders == {"mallory", "alice", "bob"}

OpenedEvent(pr, sha, sender) ==
  PullRequestEvent("opened", pr[1], pr[2], sender, sha, FALSE)

RedeliveryArrives(d) ==
  IF d = 1
  THEN \E u \in Senders : onGithub(d, OpenedEvent(PrA, ShaA, u))
  ELSE onGithub(d, OpenedEvent(PrB, ShaB, ev[1].sender))

InitRedelivery ==
  /\ prs = (PrA :> OpenPr(ShaA, "mallory", "true")) @@ (PrB :> OpenPr(ShaB, "mallory", "true"))
  /\ \E L \in SUBSET {"CI", "NOCI"} :
       /\ labels = (PrA :> L) @@ (PrB :> L)
       /\ ciLabelEver = (PrA :> prHasLabel(L, CI_LABEL)) @@ (PrB :> prHasLabel(L, CI_LABEL))
  /\ statuses = NoStatuses
  /\ InitHandlers

NextRedelivery ==
  \E d \in 1..(MaxRedeliveries + 1) :
    \/ RedeliveryArrives(d)
    \/ PrRemoveCI(d)
    \/ PrCollab(d)
    \/ PrPending(d)
    \/ TrHasNoCI(d)
    \/ TrFailStatus(d)
    \/ TrFiles(d)
    \/ TrPipeline(d)
    \/ TrBuild(d)
    \/ TrStatus(d)
    \/ TrRemoveCI(d)

SpecRedelivery == InitRedelivery /\ [][NextRedelivery]_vars

\* the deliveries of the second pull request's event
Redelivered == {d \in Deliveries : d > 1 /\ pc[d] # "idle"}

\* the two pull requests carry the same labels and the same latest status per context
SameEndState ==
  /\ labels[PrA] = labels[PrB]
  /\ \A c \in Contexts : statuses[<<ShaA, c>>] = statuses[<<ShaB, c>>]

\* every handler has returned; the single delivery met no failing call, and
\* neither did one of the N deliveries
DeliveredOnceAndNTimes ==
  /\ Quiescent
  /\ pc[1] = "done" /\ faults[1] = 0
  /\ \E d \in Redelivered : faults[d] = 0

NoLookupFailed ==
  \A k \in AllCalls : CallAt(k).op = "collaborators" => CallAt(k).ok

----------------------------------------------------------------------------
(* prRemoveLabel and userInCiWhitelist, read off the steps that call them *)

\* the step appends a call of operation op to the log of delivery d
Calls(d, op) ==
  /\ Len(calls'[d]) = Len(calls[d]) + 1
  /\ calls'[d][Len(calls'[d])].op = op
LastCall(d) == calls'[d][Len(calls'[d])]

\* the task of delivery d that made the call goes on to its next statement
GoesOn(d) ==
  IF IsMain(LastCall(d)) THEN outcome'[d] # "caught" ELSE bg'[d] # "rejected"

\* C11: prRemoveLabel called for a label the pull request does not carry returns
\* false, does not raise and leaves the labels as they are; whenever it returns
\* true the label was on the pull request and is no longer.
C11_RemoveAbsentLabel ==
  [][\A d \in Deliveries :
       Calls(d, "removeLabel") =>
         LET c == LastCall(d)
         IN /\ GoesOn(d)
            /\ LabelsNamed(c.pr, c.arg) = {} => ~c.res /\ labels' = labels
            /\ c.res => /\ LabelsNamed(c.pr, c.arg) # {}
                        /\ \A l \in labels'[c.pr] : toLowerCase(l) # toLowerCase(c.arg)]_vars

\* prRemoveLabel returned false for the CI label of a pull request without it,
\* with no remote call failing, and the handler went on to its next call
C11_Witness ==
  \E d \in Deliveries :
    /\ faults[d] = 0
    /\ Len(calls[d]) >= 2
    /\ calls[d][1].op = "removeLabel" /\ calls[d][1].arg = CI_LABEL
    /\ ~calls[d][1].res
    /\ calls[d][2].op = "collaborators"

AllowListed(user) == \E i \in 1..Len(CI_USER_WHITELIST) : CI_USER_WHITELIST[i] = user

\* the call after call i of the handler of delivery d is triggerPullRequestCI's
\* first, or the handler is about to make it
EntersTrigger(d, i) ==
  LET m == MainCalls(d)
  IN IF Len(m) > i
     THEN m[i + 1].op = "labels" /\ m[i + 1].arg = NOCI_LABEL
     ELSE pc[d] = "tr_hasNoCI"

\* C12: userInCiWhitelist returns true for every user of the static allow-list,
\* also when the collaborator lookup raises; the handler goes on into
\* triggerPullRequestCI.
C12_AllowListReliable ==
  \A d \in Deliveries :
    LET m == MainCalls(d)
    IN \A i \in 1..Len(m) :
         m[i].op = "collaborators" /\ AllowListed(m[i].arg) =>
           m[i].res /\ EntersTrigger(d, i)

\* the lookup threw for the allow-listed bob, userInCiWhitelist returned true
\* and the handler asked for the build
C12_Witness ==
  \E d \in Deliveries :
    LET m == MainCalls(d)
    IN \E i \in 1..Len(m) :
         /\ m[i].op = "collaborators" /\ m[i].arg = "bob"
         /\ ~m[i].ok /\ m[i].res
         /\ \E j \in (i + 1)..Len(m) : m[j].op = "createBuild"

\* call c posts the pending status of line 441 on the head commit of delivery d
IsPendingStatus(d, c) ==
  /\ c.op = "status" /\ c.sha = ev[d].sha /\ c.pr = EventPr(d)
  /\ c.arg.context = "ci-gate"
  /\ c.arg.status.state = "pending"
  /\ \E i \in 1..Len(c.arg.status.description) : c.arg.status.description[i] = "CI"

\* C13: when the collaborator lookup fails for a user that is not on the
\* allow-list, userInCiWhitelist returns false and does not raise: the handler
\* of the opened, reopened or synchronize event issues no build-creation call,
\* and its next call posts the pending status.
C13_FailedLookupGrantsNothing ==
  \A d \in Deliveries :
    LET m == MainCalls(d)
    IN \A i \in 1..Len(m) :
         m[i].op = "collaborators" /\ ~m[i].ok /\ ~AllowListed(m[i].arg) =>
           /\ ev[d].action \in {"opened", "reopened", "synchronize"}
           /\ ~m[i].res
           /\ \A j \in 1..Len(m) : m[j].op # "createBuild"
           /\ IF Len(m) > i
              THEN Len(m) = i + 1 /\ IsPendingStatus(d, m[i + 1])
              ELSE pc[d] = "pr_pending" /\ outcome[d] = "none"

\* the lookup failed for alice, a collaborator who reopened the pull request; the
\* handler posted the pending status and returned
C13_Witness ==
  \E d \in Deliveries :
    LET m == MainCalls(d)
    IN /\ ev[d].action = "reopened" /\ ev[d].sender = "alice"
       /\ Len(m) = 3
       /\ m[2].op = "collaborators" /\ ~m[2].ok /\ ~m[2].res
       /\ IsPendingStatus(d, m[3]) /\ m[3].ok
       /\ pc[d] = "done" /\ outcome[d] = "ok"

\* the handler of delivery d handles 'opened' for a user that is neither a
\* collaborator nor on the allow-list
OpenedByStranger(d) ==
  /\ ev[d].kind = "pull_request" /\ ev[d].action = "opened"
  /\ ~Trusted(ev[d].sender)

\* C14: the handler of an 'opened' event whose user is neither a collaborator
\* nor allow-listed asks for the removal of the CI label (which removes it when
\* it is there and is a no-op otherwise), then classifies the user, then posts
\* one pending status under ci-gate on the event's head commit with a
\* description that mentions the CI label; it makes no other call, so no
\* build-creation call.
C14_StrangerGetsPending ==
  \A d \in Deliveries :
    OpenedByStranger(d) =>
      LET m == MainCalls(d)
      IN /\ Len(m) <= 3
         /\ \A j \in 1..Len(m) : m[j].op # "createBuild"
         /\ Len(m) >= 1 =>
              /\ m[1].op = "removeLabel" /\ m[1].arg = CI_LABEL /\ m[1].pr = EventPr(d)
         /\ Len(m) >= 2 => m[2].op = "collaborators" /\ ~m[2].res
         /\ Len(m) >= 3 => IsPendingStatus(d, m[3])
         /\ pc[d] = "done" => Len(m) = 3
         /\ pc[d] = CASE Len(m) = 0 -> "pr_removeCI"
                      [] Len(m) = 1 -> "pr_collab"
                      [] Len(m) = 2 -> "pr_pending"
                      [] OTHER -> "done"

\* mallory opened a pull request that carried the CI label: the label was
\* removed and the head commit carries the pending status
C14_Witness ==
  \E d \in Deliveries :
    LET m == MainCalls(d)
    IN /\ OpenedByStranger(d) /\ pc[d] = "done" /\ Len(m) = 3
       /\ m[1].ok /\ m[3].ok
       /\ statuses[<<ev[d].sha, STATUS_CONTEXT>>].state = "pending"

CISpellings == {"CI", "Ci", "ci"}

\* the handler of a 'labeled' event read the CI label, no noCI label, the files
\* and a configured pipeline
LabeledForCI(d, m) ==
  /\ ev[d].kind = "pull_request" /\ ev[d].action = "labeled" /\ ~ev[d].merged
  /\ Len(m) >= 4
  /\ m[1].op = "labels" /\ m[1].arg = CI_LABEL /\ m[1].ok /\ m[1].res \cap CISpellings # {}
  /\ m[2].op = "labels" /\ m[2].arg = NOCI_LABEL /\ m[2].ok
  /\ m[2].res \cap NoCISpellings = {}
  /\ m[3].op = "files" /\ m[3].ok
  /\ m[4].op = "getPipeline" /\ m[4].ok /\ m[4].res

\* call c submits the build of delivery d's pull request: pipeline 'repo' (the
\* basename of org/repo), branch pull/<n>/head, the event's head commit
IsBuildSubmission(d, c) ==
  /\ c.op = "createBuild" /\ c.pr = EventPr(d)
  /\ c.arg.pipeline = <<"r", "e", "p", "o">>
  /\ c.arg.branch = <<"pull/", ev[d].number, "/head">>
  /\ c.arg.commit = ev[d].sha

IsSuccessStatus(d, c) ==
  /\ c.op = "status" /\ c.sha = ev[d].sha
  /\ c.arg.context = "ci-gate" /\ c.arg.status.state = "success"

IsCIRemoval(d, c) ==
  c.op = "removeLabel" /\ c.arg = CI_LABEL /\ c.pr = EventPr(d)

\* C15: the handler of a 'labeled' event on an unmerged pull request that
\* carries the CI label and no noCI label, with the pipeline configured, submits
\* one build to the pipeline named by the repository basename, on branch
\* pull/<n>/head at the event's head commit; its next call posts the success
\* status under ci-gate on that commit; its next call removes the CI label.
C15_LabeledBuildsInOrder ==
  \A d \in Deliveries :
    LET m == MainCalls(d)
    IN LabeledForCI(d, m) =>
         /\ Cardinality({j \in 1..Len(m) : m[j].op = "createBuild"}) <= 1
         /\ IF Len(m) = 4 THEN pc[d] = "tr_build"
            ELSE /\ IsBuildSubmission(d, m[5])
                 /\ m[5].ok =>
                      IF Len(m) = 5 THEN pc[d] = "tr_status"
                      ELSE /\ IsSuccessStatus(d, m[6])
                           /\ m[6].ok =>
                                IF Len(m) = 6 THEN pc[d] = "tr_removeCI"
                                ELSE IsCIRemoval(d, m[7])

\* a labeled event ran through: build, success status, removal of the CI label
C15_Witness ==
  \E d \in Deliveries :
    LET m == MainCalls(d)
    IN /\ LabeledForCI(d, m) /\ Len(m) >= 7
       /\ IsBuildSubmission(d, m[5]) /\ m[5].ok
       /\ IsSuccessStatus(d, m[6]) /\ m[6].ok
       /\ IsCIRemoval(d, m[7]) /\ m[7].ok
       /\ labels[EventPr(d)] \cap CISpellings = {}
       /\ statuses[<<ev[d].sha, STATUS_CONTEXT>>].state = "success"

----------------------------------------------------------------------------
(* SpecUrl: the rewriter.  One status event arrives, for a repository in   *)
(* or out of PUBLIC_PIPELINE_REPOS, with a target URL put together from    *)
(* the parts below, or with none.  Neither repository has an open pull     *)
(* request here: a sweep is its listing.                                   *)

UrlPrefixes ==
  {orgUrlPrefix,
   <<"x">> \o orgUrlPrefix,
   <<"h","t","t","p","s",":","/","/","b","u","i","l","d","k","i","t","e",".","c","o","m","/","p","/">>}
UrlSlugs ==
  {<<"r","e","p","o">>, <<"m","y","-","r">>, <<"R","e","p","o">>, <<"r","3">>, <<>>}
UrlInfixes == {BuildsPath, <<"/","b","u","i","l","d","/">>}
UrlBuilds ==
  {<<"4","2">>, <<"7">>, <<"0">>, <<"a","b","c">>, <<"4","[","2">>, <<"[">>,
   <<"4","2","/">>, <<"4","2","?","x">>, <<"-","1">>, <<>>,
   LatestPath \o <<"m">>, LatestPath \o <<"d","e","v">>, LatestPath}
Urls ==
  {p \o s \o i \o b : p \in UrlPrefixes, s \in UrlSlugs, i \in UrlInfixes, b \in UrlBuilds}

UrlEvents ==
  {StatusEvent(r, ShaA, BuildkiteContext, "success", u) :
     r \in {OrgRepo, PubRepo}, u \in Urls \cup {NoUrl}}

NextUrl ==
  \/ \E e \in UrlEvents : onGithub(1, e)
  \/ StRewrite(1)
  \/ SwList(1)

SpecUrl == InitBurst /\ [][NextUrl]_vars

\* the URLs the rewriter is meant to accept: the organization prefix, a pipeline
\* slug of lowercase letters and hyphens, /builds/, and a positive integer or
\* latest/ and a branch alias
PipelineSlug(s) == Len(s) >= 1 /\ AllIn(s, LowerLetters \cup {"-"})
PositiveInteger(b) == Len(b) >= 1 /\ AllIn(b, Digits) /\ b[1] # "0"
LatestAlias(b) ==
  /\ startsWith(b, LatestPath)
  /\ Len(b) > Len(LatestPath)
  /\ AllIn(slice(b, Len(LatestPath)), LowerLetters)
PublicLogUrl(url) ==
  \E s \in UrlSlugs, b \in UrlBuilds :
    /\ url = orgUrlPrefix \o s \o BuildsPath \o b
    /\ PipelineSlug(s)
    /\ PositiveInteger(b) \/ LatestAlias(b)

Reposted(d) == \E i \in 1..Len(calls[d]) : calls[d][i].op = "status"

\* C16: isBuildkitePublicLogUrl accepts the target URL of a status event if and
\* only if it is the organization prefix, a pipeline slug of lowercase letters
\* and hyphens, /builds/, and a positive integer or latest/ plus a branch alias,
\* with nothing after it; and a status is re-posted only for such a URL.
C16_ExactPattern ==
  \A d \in Deliveries :
    ev[d].kind = "status" /\ ev[d].target_url # NoUrl =>
      /\ isBuildkitePublicLogUrl(ev[d].target_url) <=> PublicLogUrl(ev[d].target_url)
      /\ Reposted(d) => PublicLogUrl(ev[d].target_url)

\* the URLs of the model on which the source's pattern and the intended one differ
Misjudged == {u \in Urls : isBuildkitePublicLogUrl(u) # PublicLogUrl(u)}
MisjudgedBuilds == {b \in UrlBuilds : \E u \in Misjudged : u = orgUrlPrefix \o <<"r","e","p","o">> \o BuildsPath \o b}

\* the two patterns differ on the build number only: the source's class
\* [1-9[0-9] lets "0" and "[" through
OnlyBuildNumberMisjudged ==
  /\ MisjudgedBuilds = {<<"0">>, <<"4","[","2">>, <<"[">>}
  /\ \A u \in Misjudged : isBuildkitePublicLogUrl(u)

----------------------------------------------------------------------------
(* SpecRepos: status events of two repositories, org/repo and org/pub (the *)
(* latter in PUBLIC_PIPELINE_REPOS), each with one open pull request,      *)
(* arrive in any order and overlap.                                        *)

PrP == PR(PubRepo, 8)
BadUrl == orgUrlPrefix \o <<"r","e","p","o">> \o BuildsPath \o <<"a","b","c">>

RepoEvents ==
  {StatusEvent(OrgRepo, ShaA, STATUS_CONTEXT, "success", NoUrl),
   StatusEvent(OrgRepo, ShaA, BuildkiteContext, "success", BuildUrl),
   StatusEvent(PubRepo, ShaB, STATUS_CONTEXT, "success", NoUrl),
   StatusEvent(PubRepo, ShaB, BuildkiteContext, "success", BuildUrl),
   StatusEvent(PubRepo, ShaB, BuildkiteContext, "success", BadUrl)}

InitRepos ==
  /\ prs = (PrA :> OpenPr(ShaA, "alice", "true")) @@ (PrP :> OpenPr(ShaB, "alice", "true"))
  /\ labels = (PrA :> {}) @@ (PrP :> {})
  /\ ciLabelEver = (PrA :> FALSE) @@ (PrP :> FALSE)
  /\ statuses = NoStatuses
  /\ InitHandlers

NextRepos ==
  \E d \in 1..MaxRepoEvents :
    \/ \E e \in RepoEvents : onGithub(d, e)
    \/ StRewrite(d)
    \/ SwList(d)
    \/ AmInfo(d)
    \/ AmHasLabel(d)

SpecRepos == InitRepos /\ [][NextRepos]_vars

ForPublicRepo(d) == ev[d].kind = "status" /\ ev[d].repo \in PUBLIC_PIPELINE_REPOS

\* the handler of delivery d asked for a sweep: it started one or, finding the
\* busy flag set, left the pending flag set
SweepRequested(d) ==
  /\ loc[d].flagged
  /\ loc[d].flagBusy \/ \E i \in 1..Len(sweeps) : sweeps[i].by = d

\* C17: for a status event whose repository is in PUBLIC_PIPELINE_REPOS the
\* handler re-posts no status, whatever the target URL, and asks for the sweep
\* at once.
C17_PublicRepoNotRewritten ==
  \A d \in Deliveries :
    ForPublicRepo(d) => ~Reposted(d) /\ pc[d] # "st_rewrite" /\ SweepRequested(d)

\* a status event of org/pub whose target URL the pattern accepts was handled
\* without a re-post during a sweep, another one started a sweep
C17_Witness ==
  \E d1, d2 \in Deliveries :
    /\ ForPublicRepo(d1) /\ ev[d1].target_url = BuildUrl
    /\ isBuildkitePublicLogUrl(ev[d1].target_url)
    /\ loc[d1].flagBusy /\ pc[d1] = "done" /\ ~Reposted(d1)
    /\ ForPublicRepo(d2) /\ ev[d2].target_url = BuildUrl
    /\ \E i \in 1..Len(sweeps) : sweeps[i].by = d2

\* C18: every error raised while a delivery is handled, in the handler or in an
\* operation the handler starts, is caught by onGithub's catch: no operation
\* ends in a rejection that nothing handles.
C18_NoUnhandledRejection == \A d \in Deliveries : bg[d] # "rejected"

\* the sweeps that started after delivery d was received and go over its repository
SweepsFor(d) ==
  {i \in 1..Len(sweeps) : i > loc[d].recvSweeps /\ sweeps[i].name = ev[d].name}

\* C20: once every handler has returned, every status event for repository R
\* whose handler reached the coalescing step has been followed by a sweep over R
\* that started after the event arrived, also when the events of several
\* repositories are coalesced by the busy and pending flags (stated for the
\* runs in which no remote call fails).
C20_SweepOfOwnRepository ==
  Quiescent /\ Sum(faults, Deliveries) = 0 =>
    \A d \in Deliveries :
      ev[d].kind = "status" /\ loc[d].flagged => SweepsFor(d) # {}

----------------------------------------------------------------------------
(* SpecLive: org/repo has two open pull requests.  #8 is ready to merge:   *)
(* automerge label, mergeable, two success statuses on its head.  #7 comes *)
(* first in the listing, in any condition.  Status events of org/repo      *)
(* arrive and overlap.                                                     *)

LiveEvents == {StatusEvent(OrgRepo, ShaB, BuildkiteContext, "success", NoUrl)}

InitLive ==
  /\ \E mergeable \in {"true", "false", "null"} :
       prs = (PrA :> OpenPr(ShaA, "alice", mergeable)) @@ (PrB :> OpenPr(ShaB, "alice", "true"))
  /\ \E L \in SUBSET {"automerge"} : labels = (PrA :> L) @@ (PrB :> {"automerge"})
  /\ ciLabelEver = (PrA :> FALSE) @@ (PrB :> FALSE)
  /\ \E build \in {"success", "failure", "pending"} :
       statuses = [k \in Shas \X Contexts |->
                     IF k = <<ShaA, BuildkiteContext>> THEN StatusOf(build)
                     ELSE StatusOf("success")]
  /\ InitHandlers

NextLive ==
  \E d \in 1..MaxDeliveries :
    \/ \E e \in LiveEvents : onGithub(d, e)
    \/ SwList(d)
    \/ AmInfo(d)
    \/ AmHasLabel(d)
    \/ AmRemove(d)
    \/ AmComment(d)
    \/ AmCombined(d)
    \/ AmMerge(d)

SpecLive == InitLive /\ [][NextLive]_vars

\* the pull request is open, carries the automerge label, is mergeable, and the
\* combined status of its head is success with at least 2 statuses
ReadyForMerge(pr) ==
  /\ prs[pr].state = "open" /\ prs[pr].mergeable = "true"
  /\ labels[pr] \cap AutomergeSpellings # {}
  /\ combinedStatus(prs[pr].head).state = "success"
  /\ combinedStatus(prs[pr].head).count >= 2

\* no listing failed and no call about the pull request failed
NothingFailedFor(pr) ==
  \A k \in AllCalls : CallAt(k).op = "prs" \/ CallAt(k).pr = pr => CallAt(k).ok

StatusEventHandled(repoName) ==
  \E d \in Deliveries : ev[d].kind = "status" /\ ev[d].name = repoName /\ loc[d].flagged

\* C19: once a status event of the repository has been handled and every
\* handler has returned, a pull request that is still open, labeled automerge,
\* mergeable and green on at least 2 statuses has had a merge call issued for
\* it, whatever the other open pull requests of the repository (stated for the
\* runs in which no listing and no call about that pull request fails).
C19_ReadyPullRequestMerged ==
  \A pr \in DOMAIN prs :
    /\ Quiescent /\ StatusEventHandled(pr[1])
    /\ ReadyForMerge(pr) /\ NothingFailedFor(pr)
    => MergeCalls(pr, prs[pr].head) # {}

----------------------------------------------------------------------------
(* Failures of the label removal *)

\* the step is a removal call of delivery d's handler that github failed for
\* another reason than the label's absence
RemovalFailsUpstream(d) ==
  /\ Calls(d, "removeLabel") /\ IsMain(LastCall(d))
  /\ faults'[d] > faults[d]

\* C21: a removal of a label the pull request does not carry is a benign no-op
\* and the handler goes on; any other failure of the removal call propagates to
\* onGithub's catch and ends the handling of the delivery, which issues no
\* further call.
C21_OtherRemovalFailuresPropagate ==
  [][\A d \in Deliveries :
       /\ Calls(d, "removeLabel") /\ faults'[d] = faults[d]
            /\ LabelsNamed(LastCall(d).pr, LastCall(d).arg) = {}
          => GoesOn(d) /\ labels' = labels
       /\ RemovalFailsUpstream(d) => outcome'[d] = "caught" /\ pc'[d] = "done"]_vars

----------------------------------------------------------------------------
(* Who is classified: the author of the pull request or the sender of the event *)

\* the handler of delivery d handles opened, reopened or synchronize
HandlesNewHead(d) ==
  ev[d].kind = "pull_request" /\ ev[d].action \in {"opened", "reopened", "synchronize"}

\* the handler of delivery d went into triggerPullRequestCI
WentIntoTrigger(d) ==
  \/ pc[d] = "tr_hasNoCI"
  \/ \E i \in 1..Len(MainCalls(d)) :
       MainCalls(d)[i].op = "labels" /\ MainCalls(d)[i].arg = NOCI_LABEL

PostedPending(d) ==
  \E i \in 1..Len(MainCalls(d)) : IsPendingStatus(d, MainCalls(d)[i])

\* C22: the handler of an opened, reopened or synchronize event triggers CI if
\* and only if the author of the pull request is trusted (a collaborator or
\* allow-listed); for an author who is not, it creates no build and posts the
\* pending status, whoever sent the event (the status being required of the
\* handlers that met no failing call and have returned).
C22_AuthorDecides ==
  \A d \in Deliveries :
    HandlesNewHead(d) =>
      LET author == prs[EventPr(d)].author
      IN /\ WentIntoTrigger(d) => Trusted(author)
         /\ ~Trusted(author) =>
              /\ \A i \in 1..Len(MainCalls(d)) : MainCalls(d)[i].op # "createBuild"
              /\ pc[d] = "done" /\ faults[d] = 0 => PostedPending(d)
         /\ Trusted(author) /\ pc[d] = "done" /\ faults[d] = 0 => WentIntoTrigger(d)

----------------------------------------------------------------------------
(* Merge safety *)

\* C23: a pass issues a merge call only as its fourth call, after it read, in
\* this order, the pull request as open and mergeable, the automerge label as
\* present, and the combined status of the head commit it read as success with
\* at least 2 statuses; the sha of the merge call is the head SHA of the pull
\* request info the pass read first.  A pass about to merge has read the same.
C23_MergeSafety ==
  \A q \in Passes :
    LET m == PassCalls(q)
    IN /\ \A i \in 1..Len(m) :
            m[i].op = "merge" =>
              /\ i = 4
              /\ ReadyToMerge(m)
              /\ m[2].arg = AUTOMERGE_LABEL /\ m[2].pr = m[1].pr
              /\ m[3].sha = m[1].res.head /\ m[3].res.count >= 2
              /\ m[4].pr = m[1].pr
              /\ m[4].sha = m[1].res.head /\ m[4].arg.sha = m[1].res.head
       /\ PassRunning(q) /\ pc[q[1]] = "am_merge" =>
            /\ Len(m) = 3 /\ ReadyToMerge(m) /\ m[3].res.count >= 2
            /\ loc[q[1]].sha = m[1].res.head

\* two passes of one pull request read it ready and each issued the merge call
\* with the head SHA it read: the first merged, the second was refused
C23_Witness ==
  \E q1, q2 \in Passes :
    LET m1 == PassCalls(q1)
        m2 == PassCalls(q2)
    IN /\ q1 # q2
       /\ Len(m1) = 4 /\ m1[4].op = "merge" /\ m1[4].ok
       /\ Len(m2) = 4 /\ m2[4].op = "merge" /\ ~m2[4].ok
       /\ m2[1].pr = m1[1].pr /\ m2[4].sha = m1[4].sha
       /\ faults = [d \in Deliveries |-> 0]

----------------------------------------------------------------------------
(* A pass on a pull request whose CI failed *)

\* pass q read: open, mergeable, automerge label present, combined status failure
FailedCI(m) ==
  /\ SawInfo(m) /\ m[1].res.state = "open" /\ m[1].res.mergeable = "true"
  /\ SawAutomerge(m)
  /\ SawCombined(m) /\ m[3].res.state = "failure"

\* C24: a pass that read an open, mergeable pull request with the automerge
\* label whose combined status is failure asks for the removal of the automerge
\* label as its next call; it posts the CI-failure comment, as its next and last
\* call, if and only if the removal removed the label; it issues no merge call.
C24_FailureRemovesLabel ==
  \A q \in Passes :
    LET m == PassCalls(q)
    IN FailedCI(m) =>
         /\ \A i \in 1..Len(m) : m[i].op # "merge"
         /\ IF Len(m) = 3
            THEN PassRunning(q) /\ pc[q[1]] = "am_remove"
            ELSE /\ m[4].op = "removeLabel" /\ m[4].arg = AUTOMERGE_LABEL
                 /\ m[4].pr = m[1].pr
                 /\ IF m[4].ok
                    THEN IF Len(m) = 4
                         THEN PassRunning(q) /\ pc[q[1]] = "am_comment"
                         ELSE /\ Len(m) = 5 /\ ~PassRunning(q)
                              /\ m[5].op = "createComment" /\ m[5].pr = m[1].pr
                              /\ m[5].arg = CIFailureBody
                    ELSE Len(m) = 4 /\ ~PassRunning(q)

\* one pass removed the label of the failed pull request and posted the comment;
\* a second pass that had read the label too found it gone at its removal and
\* posted nothing
C24_Witness ==
  \E q1, q2 \in Passes :
    LET m1 == PassCalls(q1)
        m2 == PassCalls(q2)
    IN /\ FailedCI(m1) /\ Len(m1) = 5 /\ m1[4].ok /\ m1[5].arg = CIFailureBody /\ m1[5].ok
       /\ FailedCI(m2) /\ Len(m2) = 4 /\ ~m2[4].ok /\ ~PassRunning(q2)
       /\ m2[1].pr = m1[1].pr
       /\ labels[m1[1].pr] \cap AutomergeSpellings = {}
       /\ faults = [d \in Deliveries |-> 0]

----------------------------------------------------------------------------
(* SpecPush: commits are pushed to a pull request that may carry the        *)
(* automerge label.  A 'synchronize' event, sent by the author or by a      *)
(* project member, arrives (MaxPushes of them); its handler and the         *)
(* un-awaited handleCommitsPushedToPullRequest interleave; nobody applies a *)
(* label.                                                                   *)

PushEvents ==
  {PullRequestEvent("synchronize", OrgRepo, 7, "mallory", ShaA, FALSE),
   PullRequestEvent("synchronize", OrgRepo, 7, "alice", ShaA, FALSE)}

InitPush ==
  /\ prs = (PrA :> OpenPr(ShaA, "mallory", "true"))
  /\ \E L \in SUBSET {"Automerge", "CI", "NOCI"} :
       /\ labels = (PrA :> L)
       /\ ciLabelEver = (PrA :> prHasLabel(L, CI_LABEL))
  /\ statuses = NoStatuses
  /\ InitHandlers

NextPush ==
  \E d \in 1..MaxPushes :
    \/ \E e \in PushEvents : onGithub(d, e)
    \/ HcHasLabel(d)
    \/ HcRemove(d)
    \/ HcComment(d)
    \/ PrRemoveCI(d)
    \/ PrCollab(d)
    \/ PrPending(d)
    \/ TrHasNoCI(d)
    \/ TrFailStatus(d)
    \/ TrFiles(d)
    \/ TrPipeline(d)
    \/ TrBuild(d)
    \/ TrStatus(d)
    \/ TrRemoveCI(d)

SpecPush == InitPush /\ [][NextPush]_vars

\* the removals of the automerge label of pr that removed it
AutomergeRemovals(pr) ==
  {k \in AllCalls : /\ CallAt(k).op = "removeLabel" /\ CallAt(k).pr = pr
                    /\ CallAt(k).arg = AUTOMERGE_LABEL /\ CallAt(k).ok}

\* the pull request of delivery d carried the automerge label when d arrived
\* (nobody applies a label here: a label that is or was there was there then)
\* and no earlier delivery took it off
CarriedAutomerge(d) ==
  /\ ev[d].kind = "pull_request" /\ ev[d].action = "synchronize"
  /\ \/ labels[EventPr(d)] \cap AutomergeSpellings # {}
     \/ \E k \in AutomergeRemovals(EventPr(d)) : k[1] = d

\* handleCommitsPushedToPullRequest of delivery d has made its calls up to and
\* including the comment, among the first n calls of the delivery
PushHandledWithin(d, n) ==
  \E j \in 1..n :
    /\ ~IsMain(calls[d][j])
    /\ calls[d][j].op = "createComment" /\ calls[d][j].arg = NewCommitsBody

\* C25: on a synchronize event for a pull request that carries the automerge
\* label, the removal of the automerge label and its comment are completed
\* before the handler's own first call (the removal of the CI label, then the
\* classification, then the trigger or the pending status); and when the handler
\* has returned, the automerge label is gone (stated for the runs in which no
\* remote call fails).
C25_AutomergeRemovedFirst ==
  Sum(faults, Deliveries) = 0 =>
    \A d \in Deliveries :
      CarriedAutomerge(d) =>
        /\ \A i \in 1..Len(calls[d]) :
             IsMain(calls[d][i]) => PushHandledWithin(d, i - 1)
        /\ pc[d] = "done" => labels[EventPr(d)] \cap AutomergeSpellings = {}

----------------------------------------------------------------------------
(* triggerPullRequestCI: the order of build and status, and its failures *)

TriggerSteps == {"files", "getPipeline", "createBuild"}

\* call c is the success status that accepts the pull request for CI
IsAcceptedStatus(d, c) ==
  IsSuccessStatus(d, c) /\ c.arg.status.description = AcceptedDescription

\* C26: triggerPullRequestCI posts the success status that accepts the pull
\* request only as the call that follows a build submission that succeeded, for
\* the same commit; when the fetch of the changed files, the pipeline lookup or
\* the build submission fails, the error reaches onGithub's catch and the
\* handler makes no further call: no ci-gate status, no removal of the CI label.
C26_StatusAfterBuild ==
  \A d \in Deliveries :
    LET m == MainCalls(d)
    IN \A i \in 1..Len(m) :
         /\ IsAcceptedStatus(d, m[i]) =>
              /\ i > 1 /\ m[i - 1].op = "createBuild" /\ m[i - 1].ok
              /\ m[i - 1].arg.commit = m[i].sha
         /\ m[i].op = "status" /\ m[i].arg.status.state = "success" =>
              /\ i > 1
              /\ \/ m[i - 1].op = "createBuild" /\ m[i - 1].ok
                 \/ m[i - 1].op = "getPipeline" /\ m[i - 1].ok /\ ~m[i - 1].res
         /\ m[i].op \in TriggerSteps /\ ~m[i].ok =>
              /\ i = Len(m)
              /\ pc[d] = "done" /\ outcome[d] = "caught"

\* one handler's build submission failed: it was caught, posted no status and
\* left the CI label on the pull request; another handler's build succeeded and
\* its next call posted the success status
C26_Witness ==
  \E d1, d2 \in Deliveries :
    LET m1 == MainCalls(d1)
        m2 == MainCalls(d2)
    IN /\ Len(m1) >= 1 /\ m1[Len(m1)].op = "createBuild" /\ ~m1[Len(m1)].ok
       /\ outcome[d1] = "caught"
       /\ ev[d1].action = "labeled"
       /\ labels[EventPr(d1)] \cap CISpellings # {}
       /\ \A i \in 1..Len(m1) : m1[i].op \notin {"status", "removeLabel"}
       /\ \E i \in 2..Len(m2) :
            IsAcceptedStatus(d2, m2[i]) /\ m2[i].ok /\ m2[i - 1].op = "createBuild"

----------------------------------------------------------------------------
(* SpecPipeline: two repositories, org/repo with a buildkite pipeline and   *)
(* org/pub with none; each has one open pull request of a project member,   *)
(* with or without the CI label.  'labeled' and 'opened' events arrive and  *)
(* overlap.                                                                 *)

PipelineEvents ==
  {PullRequestEvent("labeled", OrgRepo, 7, "alice", ShaA, FALSE),
   PullRequestEvent("labeled", PubRepo, 8, "alice", ShaB, FALSE),
   PullRequestEvent("opened", PubRepo, 8, "alice", ShaB, FALSE)}

InitPipeline ==
  /\ prs = (PrA :> OpenPr(ShaA, "alice", "true")) @@ (PrP :> OpenPr(ShaB, "alice", "true"))
  /\ \E L \in SUBSET {"CI"} :
       /\ labels = (PrA :> L) @@ (PrP :> L)
       /\ ciLabelEver = (PrA :> prHasLabel(L, CI_LABEL)) @@ (PrP :> prHasLabel(L, CI_LABEL))
  /\ statuses = NoStatuses
  /\ InitHandlers

NextPipeline ==
  \E d \in 1..MaxDeliveries :
    \/ \E e \in PipelineEvents : onGithub(d, e)
    \/ PrRemoveCI(d)
    \/ PrCollab(d)
    \/ PrPending(d)
    \/ LabHasCI(d)
    \/ TrHasNoCI(d)
    \/ TrFiles(d)
    \/ TrPipeline(d)
    \/ TrBuild(d)
    \/ TrStatus(d)
    \/ TrRemoveCI(d)
    \/ AmInfo(d)
    \/ AmHasLabel(d)

SpecPipeline == InitPipeline /\ [][NextPipeline]_vars

\* call c is the pipeline lookup that found no pipeline
FoundNoPipeline(c) == c.op = "getPipeline" /\ c.ok /\ ~c.res

\* call c posts the success status that says the pipeline <slug> is not present
IsNotPresentStatus(d, c, slug) ==
  /\ IsSuccessStatus(d, c)
  /\ c.arg.status.description = <<slug, " CI pipeline not present">>

\* C27: when the pipeline lookup finds no pipeline for the repository's slug,
\* triggerPullRequestCI does not raise and makes no build-creation call; its
\* next call posts the success status under ci-gate whose description says the
\* pipeline is not present; and after that status its next call removes the CI
\* label.
C27_MissingPipeline ==
  \A d \in Deliveries :
    LET m == MainCalls(d)
    IN \A i \in 1..Len(m) :
         FoundNoPipeline(m[i]) =>
           /\ m[i].arg = basename(ev[d].repo)
           /\ \A j \in 1..Len(m) : m[j].op # "createBuild"
           /\ IF Len(m) = i
              THEN pc[d] = "tr_status" /\ outcome[d] = "none"
              ELSE /\ IsNotPresentStatus(d, m[i + 1], m[i].arg)
                   /\ m[i + 1].ok =>
                        IF Len(m) = i + 1
                        THEN pc[d] = "tr_removeCI" /\ outcome[d] = "none"
                        ELSE IsCIRemoval(d, m[i + 2])

\* a 'labeled' event of org/pub, which has no pipeline: no build, the head
\* commit carries the success status, the CI label is removed
C27_Witness ==
  \E d \in Deliveries :
    LET m == MainCalls(d)
    IN /\ ev[d].action = "labeled" /\ ev[d].repo = PubRepo
       /\ \E i \in 1..Len(m) :
            /\ FoundNoPipeline(m[i]) /\ Len(m) >= i + 2
            /\ IsNotPresentStatus(d, m[i + 1], <<"p","u","b">>) /\ m[i + 1].ok
            /\ IsCIRemoval(d, m[i + 2]) /\ m[i + 2].ok
       /\ labels[PrP] \cap CISpellings = {}
       /\ statuses[<<ShaB, STATUS_CONTEXT>>].state = "success"
       /\ statuses[<<ShaB, STATUS_CONTEXT>>].description = <<<<"p","u","b">>, " CI pipeline not present">>

----------------------------------------------------------------------------
(* The pipeline allow-list of the public log pages *)

\* envconst.BUILDKITE_PIPELINE_PUBLIC_LOG_WHITELIST.split(','): a deployment
\* that exposes the logs of pipeline 'repo'
BUILDKITE_PIPELINE_PUBLIC_LOG_WHITELIST == << <<"r","e","p","o">> >>

\* pipelineInPublicLogWhitelist, lines 288-291
pipelineInPublicLogWhitelist(pipeline) ==
  \E i \in 1..Len(BUILDKITE_PIPELINE_PUBLIC_LOG_WHITELIST) :
    BUILDKITE_PIPELINE_PUBLIC_LOG_WHITELIST[i] = pipeline

\* reMatch[1] of isBuildkitePublicLogUrl (line 326): the pipeline a URL names
pipelineOfUrl(url) ==
  LET buildInfo == slice(url, Len(orgUrlPrefix))
  IN SubSeq(buildInfo, 1, FirstSlash(buildInfo) - 1)

\* call c re-posts the status of delivery d with the proxy URL
IsProxyRepost(d, c) ==
  /\ c.op = "status" /\ c.sha = ev[d].sha /\ c.arg.context = ev[d].context
  /\ c.arg.status.target_url = PUBLIC_URL_ROOT \o PublicLogPath \o ev[d].target_url

\* C28: a status is re-posted with a proxy URL only when the pipeline its
\* target URL names is in the pipeline public-log allow-list.
C28_RewriteGatedByAllowList ==
  \A d \in Deliveries :
    \A i \in 1..Len(calls[d]) :
      IsProxyRepost(d, calls[d][i]) =>
        pipelineInPublicLogWhitelist(pipelineOfUrl(ev[d].target_url))

----------------------------------------------------------------------------
(* SpecReview: reviews of org/repo#7 are submitted.  Its head branch lives  *)
(* in org/repo itself or in the fork mal/repo; the fork may have a pull     *)
(* request #7 of its own.  The review events arrive and overlap.            *)

ForkRepo == <<"m","a","l","/","r","e","p","o">>
PrF == PR(ForkRepo, 7)

ReviewEvents == {ReviewEvent(OrgRepo, OrgRepo, 7), ReviewEvent(OrgRepo, ForkRepo, 7)}

InitReview ==
  /\ \E mergeable \in {"true", "false"}, fork \in BOOLEAN :
       prs = IF fork
             THEN (PrA :> OpenPr(ShaA, "mallory", mergeable)) @@ (PrF :> OpenPr(ShaB, "mallory", "true"))
             ELSE (PrA :> OpenPr(ShaA, "mallory", mergeable))
  /\ \E L \in SUBSET {"automerge"} : labels = [pr \in DOMAIN prs |-> IF pr = PrA THEN L ELSE {"automerge"}]
  /\ ciLabelEver = [pr \in DOMAIN prs |-> FALSE]
  /\ \E build \in {"success", "failure"} :
       statuses = [k \in Shas \X Contexts |->
                     IF k = <<ShaA, BuildkiteContext>> THEN StatusOf(build)
                     ELSE StatusOf("success")]
  /\ InitHandlers

NextReview ==
  \E d \in 1..MaxDeliveries :
    \/ \E e \in ReviewEvents : onGithub(d, e)
    \/ AmInfo(d)
    \/ AmHasLabel(d)
    \/ AmRemove(d)
    \/ AmComment(d)
    \/ AmCombined(d)
    \/ AmMerge(d)

SpecReview == InitReview /\ [][NextReview]_vars

\* the pull request a review event is about
ReviewedPr(d) == PR(ev[d].repo, ev[d].number)

\* C29: the handler of a pull_request_review event runs exactly one
\* reconciliation pass, and every call of the pass is about the reviewed pull
\* request: (the repository the pull request belongs to, its number), also when
\* its head branch lives in a fork.
C29_ReviewTargetsReviewedPr ==
  \A d \in Deliveries :
    ev[d].kind = "pull_request_review" =>
      /\ loc[d].pass = 1
      /\ Target(d) = ReviewedPr(d)
      /\ \A i \in 1..Len(calls[d]) : calls[d][i].pr = ReviewedPr(d)

----------------------------------------------------------------------------
(* The sweeps, read off the call log: a sweep of delivery d is a listing    *)
(* call that succeeded, at index i, with the calls up to the next listing.  *)

Listings(d) == {i \in 1..Len(calls[d]) : calls[d][i].op = "prs" /\ calls[d][i].ok}

\* the index of the first listing call of delivery d after index i, or the end
SweepEnd(d, i) ==
  LET later == {j \in (i + 1)..Len(calls[d]) : calls[d][j].op = "prs"}
  IN IF later = {} THEN Len(calls[d]) + 1
     ELSE CHOOSE j \in later : \A k \in later : j <= k

IsInfo(c) == c.op = "info"
\* the pull requests the sweep evaluated, in the order of their passes
Evaluated(d, i) ==
  LET infos == SelectSeq(SubSeq(calls[d], i + 1, SweepEnd(d, i) - 1), IsInfo)
  IN [k \in 1..Len(infos) |-> infos[k].pr[2]]

\* the sweep is over: a later sweep of the handler started or the handler returned
SweepOver(d, i) == SweepEnd(d, i) <= Len(calls[d]) \/ pc[d] = "done"

IsPrefix(s, t) == Len(s) <= Len(t) /\ s = SubSeq(t, 1, Len(s))

\* C30: every sweep evaluates the pull requests its listing reported open one
\* at a time in listing order, each once; when the sweep is over it has
\* evaluated every one of them, whatever the outcome of reconciling those
\* before it in the listing.
C30_SweepEvaluatesAll ==
  \A d \in Deliveries :
    \A i \in Listings(d) :
      /\ IsPrefix(Evaluated(d, i), calls[d][i].res)
      /\ SweepOver(d, i) => Evaluated(d, i) = calls[d][i].res

----------------------------------------------------------------------------
(* The release of the busy flag *)

\* the step is a call of delivery d's sweep that failed
SweepCallFails(d) == InSweep(d) /\ faults'[d] > faults[d]

\* the step takes the handler of delivery d to the coalescing step (line 390)
ReachesCoalescing(d) == ~loc[d].flagged /\ loc'[d].flagged

\* a sweep started in this step, by the handler of delivery d
SweepStartsBy(d) ==
  /\ Len(sweeps') = Len(sweeps) + 1
  /\ sweeps'[Len(sweeps')].by = d
  /\ pc'[d] = "sw_list"

\* C31: the busy flag is set exactly while a handler is in the sweep loop, and
\* the pending flag only then; once every handler has returned both flags are
\* clear.  A sweep whose listing or reconciliation fails is caught inside the
\* loop: the handler does not end as caught, starts the trailing sweep when the
\* pending flag is set and releases the busy flag when it is not.  A status
\* event that reaches the coalescing step with the busy flag clear starts a
\* sweep.
C31_BusyReleased ==
  /\ [](/\ autoMergePullRequestsBusy <=> SweepRunning
        /\ autoMergePullRequestsPending => SweepRunning
        /\ Quiescent => ~autoMergePullRequestsBusy /\ ~autoMergePullRequestsPending)
  /\ [][\A d \in Deliveries :
          /\ SweepCallFails(d) =>
               /\ outcome'[d] # "caught"
               /\ IF autoMergePullRequestsPending
                  THEN SweepStartsBy(d) /\ autoMergePullRequestsBusy'
                  ELSE /\ pc'[d] = "done" /\ ~autoMergePullRequestsBusy'
                       /\ sweeps' = sweeps
          /\ ReachesCoalescing(d) /\ ~autoMergePullRequestsBusy => SweepStartsBy(d)]_vars

\* the listing of a sweep failed while an event was pending: the handler ran
\* the trailing sweep; every handler has returned, both flags are clear, and a
\* status event that arrived afterwards started a sweep of its own
C31_Witness ==
  \E d, d2, d3 \in Deliveries :
    /\ \E i \in 1..Len(calls[d]) :
         /\ calls[d][i].op = "prs" /\ ~calls[d][i].ok
         /\ Len(calls[d]) > i /\ calls[d][i + 1].op = "prs" /\ calls[d][i + 1].ok
    /\ loc[d2].flagged /\ loc[d2].flagBusy
    /\ d3 > d2 /\ loc[d3].flagged /\ ~loc[d3].flagBusy /\ sweeps[Len(sweeps)].by = d3
    /\ Quiescent
    /\ ~autoMergePullRequestsBusy /\ ~autoMergePullRequestsPending

----------------------------------------------------------------------------
(* A re-post that fails *)

\* the re-post of delivery d's status failed
RepostFailed(d) ==
  /\ ev[d].kind = "status"
  /\ \E i \in 1..Len(calls[d]) : calls[d][i].op = "status" /\ ~calls[d][i].ok

\* C32: when the re-post of the rewritten status fails, the error leaves the
\* handler before the pending flag is set: the step changes neither flag and
\* starts no sweep; the handler ends as caught with the failed re-post as its
\* only call, never reaches the coalescing step and starts no sweep.
C32_FailedRepostRequestsNothing ==
  /\ [](\A d \in Deliveries :
          RepostFailed(d) =>
            /\ pc[d] = "done" /\ outcome[d] = "caught"
            /\ Len(calls[d]) = 1
            /\ ~loc[d].flagged
            /\ \A i \in 1..Len(sweeps) : sweeps[i].by # d)
  /\ [][\A d \in Deliveries :
          pc[d] = "st_rewrite" /\ faults'[d] > faults[d] =>
            /\ autoMergePullRequestsBusy' = autoMergePullRequestsBusy
            /\ autoMergePullRequestsPending' = autoMergePullRequestsPending
            /\ sweeps' = sweeps]_vars

\* a status event arrived during the only sweep and its re-post failed: every
\* handler has returned and no second sweep was run
C32_Witness ==
  \E d \in Deliveries :
    /\ RepostFailed(d) /\ loc[d].recvInSweep
    /\ Quiescent
    /\ Len(sweeps) = 1 /\ sweeps[1].by # d
    /\ ~autoMergePullRequestsBusy /\ ~autoMergePullRequestsPending

----------------------------------------------------------------------------
(* SpecEcho: the rewriter and its own output.  One status event of the      *)
(* build backend arrives; github answers every status the handlers post     *)
(* with a status event that carries what was posted, up to MaxEchoes of     *)
(* them.  No repository has an open pull request: a sweep is its listing.   *)

\* the statuses the handlers posted
PostedStatuses == {k \in AllCalls : CallAt(k).op = "status" /\ CallAt(k).ok}
\* the deliveries that answer them
Echoes == {d \in Deliveries : d > 1 /\ pc[d] # "idle"}

\* github: the status event for the status that call k posted
EchoEvent(k) ==
  StatusEvent(CallAt(k).pr[1], CallAt(k).sha, CallAt(k).arg.context,
              CallAt(k).arg.status.state, CallAt(k).arg.status.target_url)

\* github delivers the event of a posted status that it has not delivered yet
EchoArrives(d) ==
  /\ d > 1
  /\ Cardinality(Echoes) < Cardinality(PostedStatuses)
  /\ \E k \in PostedStatuses :
       /\ \A d2 \in Echoes : ev[d2] # EchoEvent(k)
       /\ onGithub(d, EchoEvent(k))

NextEcho ==
  \/ \E e \in UrlEvents : onGithub(1, e)
  \/ \E d \in 1..(MaxEchoes + 1) :
       \/ EchoArrives(d)
       \/ StRewrite(d)
       \/ SwList(d)

SpecEcho == InitBurst /\ [][NextEcho]_vars

ProxyPrefix == PUBLIC_URL_ROOT \o PublicLogPath
IsProxyUrl(url) == url # NoUrl /\ startsWith(url, ProxyPrefix)

\* C33: the rewriter does not match its own output: no proxy URL
\* <public-root>/buildkite_public_log?<url> passes isBuildkitePublicLogUrl, a
\* status event whose target URL is a proxy URL is not re-posted, and the one
\* status event of the build backend causes at most one re-post, however the
\* events of the re-posts come back.
C33_NoSelfMatch ==
  /\ \A u \in Urls : ~isBuildkitePublicLogUrl(ProxyPrefix \o u)
  /\ \A d \in Deliveries :
       ev[d].kind = "status" /\ IsProxyUrl(ev[d].target_url) =>
         /\ ~isBuildkitePublicLogUrl(ev[d].target_url)
         /\ pc[d] # "st_rewrite" /\ ~Reposted(d)
  /\ Cardinality({k \in AllCalls : CallAt(k).op = "status"}) <= 1

\* the status of build 42 was re-posted; its event came back with the proxy
\* URL while the first sweep was running and was coalesced without a re-post
C33_Witness ==
  \E d \in Echoes :
    /\ ev[1].target_url = BuildUrl /\ Reposted(1)
    /\ ev[d].target_url = ProxyPrefix \o BuildUrl
    /\ statuses[<<ShaA, BuildkiteContext>>].target_url = ProxyPrefix \o BuildUrl
    /\ loc[d].flagged /\ loc[d].flagBusy /\ ~Reposted(d)
    /\ Quiescent /\ Len(sweeps) = 2

----------------------------------------------------------------------------
(* SpecComments: a pull request that carries the automerge label and cannot *)
(* be merged (a conflict, or a failed build).  Commits are pushed to it and *)
(* reviews are submitted; the 'synchronize' and pull_request_review events  *)
(* arrive and overlap, so the three paths that comment race for the label.  *)

CommentEvents ==
  {PullRequestEvent("synchronize", OrgRepo, 7, "mallory", ShaA, FALSE),
   ReviewEvent(OrgRepo, OrgRepo, 7)}

InitComments ==
  /\ \E mergeable \in {"true", "false"} :
       prs = (PrA :> OpenPr(ShaA, "mallory", mergeable))
  /\ labels = (PrA :> {"automerge"})
  /\ ciLabelEver = (PrA :> FALSE)
  /\ statuses = [k \in Shas \X Contexts |->
                   IF k = <<ShaA, BuildkiteContext>> THEN StatusOf("failure")
                   ELSE NoStatus]
  /\ InitHandlers

NextComments ==
  \E d \in 1..MaxDeliveries :
    \/ \E e \in CommentEvents : onGithub(d, e)
    \/ HcHasLabel(d)
    \/ HcRemove(d)
    \/ HcComment(d)
    \/ PrRemoveCI(d)
    \/ PrCollab(d)
    \/ PrPending(d)
    \/ AmInfo(d)
    \/ AmHasLabel(d)
    \/ AmRemove(d)
    \/ AmComment(d)
    \/ AmCombined(d)

SpecComments == InitComments /\ [][NextComments]_vars

\* the calls of the un-awaited handleCommitsPushedToPullRequest of delivery d
IsBackground(c) == c.task = "bg"
BackgroundCalls(d) == SelectSeq(calls[d], IsBackground)

CommentBodies == {NewCommitsBody, ConflictBody, CIFailureBody}

\* in the calls m of one task, every comment directly follows a removal of the
\* automerge label of the same pull request that removed the label
CommentsFollowRemovals(m) ==
  \A i \in 1..Len(m) :
    m[i].op = "createComment" =>
      /\ m[i].arg \in CommentBodies
      /\ i > 1
      /\ m[i - 1].op = "removeLabel" /\ m[i - 1].arg = AUTOMERGE_LABEL
      /\ m[i - 1].ok /\ m[i - 1].res
      /\ m[i - 1].pr = m[i].pr

CommentsOn(pr) == {k \in AllCalls : CallAt(k).op = "createComment" /\ CallAt(k).pr = pr}

\* C34: a comment is posted only directly after the same handler's own
\* successful removal of the automerge label from that pull request (new
\* commits, merge conflict or CI failure), and the comments posted on a pull
\* request are never more than the successful removals of its automerge label.
C34_CommentsBoundedByRemovals ==
  /\ \A d \in Deliveries :
       CommentsFollowRemovals(MainCalls(d)) /\ CommentsFollowRemovals(BackgroundCalls(d))
  /\ \A pr \in DOMAIN prs :
       Cardinality(CommentsOn(pr)) <= Cardinality(AutomergeRemovals(pr))

\* a push and a review raced for the label: both read it, the push removed it
\* and posted its comment, the pass of the review found it gone and posted
\* nothing; no call failed otherwise
C34_Witness ==
  \E d1, d2 \in Deliveries :
    LET b == BackgroundCalls(d1)
        m == MainCalls(d2)
    IN /\ ev[d1].action = "synchronize" /\ ev[d2].kind = "pull_request_review"
       /\ Len(b) = 3 /\ b[2].ok /\ b[3].op = "createComment" /\ b[3].ok
       /\ Len(m) >= 3 /\ SawAutomerge(m)
       /\ m[Len(m)].op = "removeLabel" /\ ~m[Len(m)].res /\ pc[d2] = "done"
       /\ Cardinality(CommentsOn(PrA)) = 1
       /\ faults = [d \in Deliveries |-> 0]

----------------------------------------------------------------------------
(* One grant of the CI label, one build *)

\* the builds that handlers of 'labeled' events submitted for pr
LabeledBuilds(pr) ==
  {k \in BuildsFor(pr) : ev[k[1]].kind = "pull_request" /\ ev[k[1]].action = "labeled"}

\* the handler of delivery d, of a 'labeled' event, triggered CI and returned
LabeledTriggered(d) ==
  /\ ev[d].kind = "pull_request" /\ ev[d].action = "labeled"
  /\ pc[d] = "done"
  /\ \E i \in 1..Len(calls[d]) : calls[d][i].op = "createBuild"

\* C35: while the CI label is not applied again, the one grant the pull request
\* may carry leads to at most one build by the handlers of its 'labeled'
\* events, however often and however concurrently the event is delivered; and
\* once such a handler has triggered CI and returned, the CI label is absent
\* (stated for the runs in which no remote call fails).
C35_OneBuildPerGrant ==
  Sum(faults, Deliveries) = 0 /\ labelings = 0 =>
    /\ \A pr \in DOMAIN prs : Cardinality(LabeledBuilds(pr)) <= 1
    /\ \A d \in Deliveries :
         LabeledTriggered(d) => labels[EventPr(d)] \cap CISpellings = {}

====
